---- MODULE Spec2Model ----
(***************************************************************************)
(* State-machine model of the concurrent multi-device execution engine:    *)
(*   - TutorialEngine (src/src/tutorial/tutorial_engine.py): the step      *)
(*     sequencer with per-step retry, checkpoints and cancellation;        *)
(*   - ParallelEmulatorExecutor (src/src/core/parallel_executor.py): the   *)
(*     registry, the task queue, the dispatch loop and the worker pool.    *)
(*                                                                         *)
(* Script indices are zero-based as in the code; steps[i + 1] is the       *)
(* retry_count of the step at script index i.  Step ids are unique, so a   *)
(* step's index stands for its id.  NoStep stands for None.                *)
(* The caller's callbacks on_step_complete / on_tutorial_complete are      *)
(* registered; on_tutorial_complete returns normally, on_step_complete     *)
(* returns normally or raises according to the engine's cb_raises input.   *)
(***************************************************************************)
EXTENDS Integers, Sequences, FiniteSets, TLC

\* ------------------------------------------------------------------ bounds
MaxEngines == 2
MaxSteps == 2
MaxRetry == 2
MaxRuns == 2
MaxTime == 1
MaxStarts == 2
MaxWorkers == 2
ScriptLen == 2

\* ------------------------------------------------------- program constants
CheckpointEvery == 5
DefaultRetry == 3

NoStep == -1
NoIndex == -1
NoCheckpoint == <<"none">>

EngineIds == 1..MaxEngines
Devices == {"A", "B"}
NoDevice == "none"
ServerRanges == {1}
ExplicitCheckpointIds == {<<"cp">>}
Outcomes == {"truthy", "falsy", "raise"}

VARIABLES
    engines,          \* engine id -> TutorialEngine object state (and run ghosts)
    now,              \* int(time.time()): the wall clock in whole seconds
    adb_controllers,  \* keys of ParallelEmulatorExecutor.adb_controllers
    image_processors, \* keys of ParallelEmulatorExecutor.image_processors
    tutorial_engines, \* device -> engine id (0: no entry)
    current_tasks,    \* device -> task (0: no entry)
    task_queue,       \* queue.Queue of tasks
    futures,          \* task_id -> task whose future is stored (0: no entry)
    executor,         \* the pool: 0 is None, otherwise the pool's number
    stop_flag,        \* threading.Event
    max_workers,      \* size of every pool
    tasks,            \* task -> EmulatorTask object, its future and its worker
    dispatchers,      \* dispatch-loop thread started by the n-th start()
    work_queues,      \* pool number -> the pool's queue of work items
    lock,             \* ParallelEmulatorExecutor.lock held across a blocking call
                      \* (0: free between the atomic steps; 1: held by the caller)
    calls,            \* the caller's thread inside initialize_emulator or
                      \* cleanup_emulator, and what its last call returned
    global_image_processor, \* the ImageProcessor object all devices share
    finders,          \* thread -> its position inside find_template
    waiter,           \* a thread inside wait_for_template
    clicker,          \* a thread inside _click_until_image_found
    emulator_manager  \* EmulatorManager._lock and the threads inside its methods

engineVars == <<engines, now>>
execVars == <<adb_controllers, image_processors, tutorial_engines, current_tasks,
              task_queue, futures, executor, stop_flag, max_workers, tasks,
              dispatchers, work_queues, lock, calls,
              global_image_processor, finders, waiter, clicker,
              emulator_manager>>
vars == <<engines, now, adb_controllers, image_processors, tutorial_engines,
          current_tasks, task_queue, futures, executor, stop_flag, max_workers,
          tasks, dispatchers, work_queues, lock, calls,
          global_image_processor, finders, waiter, clicker, emulator_manager>>
imgVars == <<global_image_processor, finders, waiter, clicker>>

\* ------------------------------------------------------- TutorialEngine
\* The engine before construction (no object yet).
NoEngine ==
    [exists |-> FALSE, dev |-> NoDevice, steps |-> <<>>, cb_raises |-> FALSE,
     trace |-> FALSE,
     server_range |-> 1, stop_event |-> FALSE, current_step |-> NoStep,
     checkpoint_step_index |-> NoIndex, checkpoints |-> <<>>,
     last_checkpoint_id |-> NoCheckpoint,
     pc |-> "idle", i |-> 0, attempt |-> 0, step_success |-> FALSE,
     raised |-> FALSE,
     runs |-> 0, start_index |-> NoIndex, attempts |-> <<>>, returned |-> <<>>,
     reports |-> <<>>,
     completes |-> <<>>, cancel_seen |-> FALSE, all_completes |-> <<>>,
     rt |-> <<>>, restored |-> "none", rejected |-> FALSE,
     step_args |-> 0, called_with |-> <<>>, season_call |-> <<>>]

\* TutorialEngine.__init__ followed by the assignment of the script.
\* step_args is the argument that create_tutorial_steps gives to the season
\* step and to the server step when it builds them (tutorial_steps.py lines
\* 63 and 72): engine.server_range[0], evaluated then.
NewEngine(dev, steps, server_range, cb_raises, trace) ==
    [NoEngine EXCEPT !.exists = TRUE, !.dev = dev, !.steps = steps,
                     !.server_range = server_range, !.cb_raises = cb_raises,
                     !.trace = trace, !.step_args = server_range]

\* Per-run history (what an observer of the run records), reset when a run
\* starts.  The per-step history is kept for engines built with trace = TRUE.
FreshRun(g) ==
    [g EXCEPT !.start_index = NoIndex,
              !.attempts = IF g.trace THEN [k \in 1..Len(g.steps) |-> 0] ELSE <<>>,
              !.returned = IF g.trace THEN [k \in 1..Len(g.steps) |-> "none"] ELSE <<>>,
              !.reports = IF g.trace THEN [k \in 1..Len(g.steps) |-> <<>>] ELSE <<>>,
              !.completes = <<>>, !.cancel_seen = FALSE]

\* Thread.is_alive() of the engine's execution thread.
ThreadAlive(g) == g.pc \notin {"idle", "dead"}

\* TutorialEngine.is_running
is_running(g) == g.exists /\ ThreadAlive(g)

\* StartEngine without the test of the thread.
StartEngineUnchecked(g) ==
    [FreshRun(g) EXCEPT !.stop_event = FALSE, !.pc = "begin",
                        !.i = 0, !.attempt = 0, !.step_success = FALSE,
                        !.raised = FALSE, !.runs = g.runs + 1]

\* TutorialEngine.start as a function of the engine object.
StartEngine(g) ==
    IF ThreadAlive(g)
    THEN g
    ELSE [FreshRun(g) EXCEPT !.stop_event = FALSE, !.pc = "begin",
                             !.raised = FALSE, !.runs = g.runs + 1]

\* TutorialEngine.stop as a function of the engine object: the flag is set
\* and the bounded join returns, whether or not the thread has exited.
StopEngine(g) ==
    IF ThreadAlive(g) THEN [g EXCEPT !.stop_event = TRUE] ELSE g

\* TutorialEngine.save_checkpoint(checkpoint_id); None is NoCheckpoint.
AutoCheckpointId(g) == <<"checkpoint", g.current_step, now>>

PutCheckpoint(cps, id, val) ==
    IF \E k \in 1..Len(cps) : cps[k].id = id
    THEN [k \in 1..Len(cps) |->
            IF cps[k].id = id THEN [id |-> id, val |-> val] ELSE cps[k]]
    ELSE Append(cps, [id |-> id, val |-> val])

save_checkpoint(g, checkpoint_id) ==
    IF g.current_step = NoStep
    THEN g
    ELSE LET id == IF checkpoint_id = NoCheckpoint
                   THEN AutoCheckpointId(g) ELSE checkpoint_id
         IN [g EXCEPT !.checkpoints =
                        PutCheckpoint(g.checkpoints, id,
                                      [step_id |-> g.current_step,
                                       server_range |-> g.server_range]),
                      !.last_checkpoint_id = id]

HasCheckpoint(g, id) == \E k \in 1..Len(g.checkpoints) : g.checkpoints[k].id = id

GetCheckpoint(g, id) ==
    LET k == CHOOSE k \in 1..Len(g.checkpoints) : g.checkpoints[k].id = id
    IN g.checkpoints[k].val

\* restore_checkpoint assigning server_range before it looks the step up.
restore_checkpoint_RangeFirst(g, checkpoint_id) ==
    LET id == IF checkpoint_id = NoCheckpoint
              THEN g.last_checkpoint_id ELSE checkpoint_id
    IN IF id = NoCheckpoint \/ ~HasCheckpoint(g, id)
       THEN g
       ELSE LET cp == GetCheckpoint(g, id)
            IN IF cp.step_id \notin 0..(Len(g.steps) - 1)
               THEN [g EXCEPT !.server_range = cp.server_range]
               ELSE [g EXCEPT !.server_range = cp.server_range,
                              !.checkpoint_step_index = cp.step_id]

\* The value restore_checkpoint(checkpoint_id) returns.
restore_result(g, checkpoint_id) ==
    LET id == IF checkpoint_id = NoCheckpoint
              THEN g.last_checkpoint_id ELSE checkpoint_id
    IN /\ id # NoCheckpoint
       /\ HasCheckpoint(g, id)
       /\ GetCheckpoint(g, id).step_id \in 0..(Len(g.steps) - 1)

\* TutorialEngine.restore_checkpoint(checkpoint_id)
restore_checkpoint(g, checkpoint_id) ==
    LET id == IF checkpoint_id = NoCheckpoint
              THEN g.last_checkpoint_id ELSE checkpoint_id
    IN IF id = NoCheckpoint \/ ~HasCheckpoint(g, id)
       THEN g
       ELSE LET cp == GetCheckpoint(g, id)
            IN IF cp.step_id \notin 0..(Len(g.steps) - 1)
               THEN g
               ELSE [g EXCEPT !.server_range = cp.server_range,
                              !.checkpoint_step_index = cp.step_id]

\* ---- the execution thread, TutorialEngine._run_tutorial

\* lines 125-131: the resume index is read by the thread.
RunBegin(g) ==
    LET start_index == IF g.checkpoint_step_index = NoIndex
                       THEN 0 ELSE g.checkpoint_step_index
    IN [g EXCEPT !.i = start_index, !.start_index = start_index, !.pc = "top"]

\* LoopTop returning from the thread on cancellation instead of leaving the
\* loop.
LoopTopReturnOnCancel(g) ==
    IF g.stop_event
    THEN [g EXCEPT !.pc = "dead", !.i = 0, !.attempt = 0,
                   !.current_step = NoStep, !.checkpoint_step_index = NoIndex]
    ELSE IF g.i >= Len(g.steps)
         THEN [g EXCEPT !.pc = "finish", !.i = 0, !.attempt = 0]
         ELSE [g EXCEPT !.current_step = g.i, !.step_success = FALSE,
                        !.attempt = 0, !.pc = "attempt"]

\* lines 134-145: the head of the step loop.
LoopTop(g) ==
    IF g.i >= Len(g.steps) \/ g.stop_event
    THEN [g EXCEPT !.pc = "finish", !.i = 0, !.attempt = 0]
    ELSE [g EXCEPT !.current_step = g.i, !.step_success = FALSE,
                   !.attempt = 0, !.pc = "attempt"]

\* AttemptTop with the attempt bound off by one.
AttemptTopOffByOne(g) ==
    IF g.attempt > g.steps[g.i + 1] \/ g.stop_event
    THEN [g EXCEPT !.pc = "report"]
    ELSE [g EXCEPT !.pc = "acting",
                   !.attempts = IF g.trace THEN [@ EXCEPT ![g.i + 1] = @ + 1] ELSE @]

\* lines 146-152: the head of the attempt loop; the action begins executing.
AttemptTop(g) ==
    IF g.attempt >= g.steps[g.i + 1] \/ g.stop_event
    THEN [g EXCEPT !.pc = "report"]
    ELSE [g EXCEPT !.pc = "acting",
                   !.attempts = IF g.trace THEN [@ EXCEPT ![g.i + 1] = @ + 1] ELSE @]

\* lines 152-164: the action returns (any value) or raises.
ActionEnd(g, outcome) ==
    IF outcome = "raise"
    THEN [g EXCEPT !.attempt = @ + 1, !.pc = "attempt"]
    ELSE LET h == [g EXCEPT !.step_success = TRUE,
                            !.returned = IF g.trace
                                         THEN [@ EXCEPT ![g.i + 1] = outcome]
                                         ELSE @,
                            !.pc = "report"]
         IN IF g.i % CheckpointEvery = 0
            THEN save_checkpoint(h, NoCheckpoint)
            ELSE h

\* StepReport going on to the next step after a failed step.
StepReportContinue(g) ==
    LET h == [g EXCEPT !.reports =
                         IF g.trace
                         THEN [@ EXCEPT ![g.i + 1] = Append(@, g.step_success)]
                         ELSE @]
    IN IF g.cb_raises
       THEN [h EXCEPT !.raised = TRUE, !.pc = "finish", !.i = 0, !.attempt = 0]
       ELSE [h EXCEPT !.i = @ + 1, !.attempt = 0, !.pc = "top"]

\* lines 166-172: the step is reported; a failed step ends the loop, and an
\* exception of the callback leaves the try block.
StepReport(g) ==
    LET h == [g EXCEPT !.reports =
                         IF g.trace
                         THEN [@ EXCEPT ![g.i + 1] = Append(@, g.step_success)]
                         ELSE @]
    IN IF g.cb_raises
       THEN [h EXCEPT !.raised = TRUE, !.pc = "finish", !.i = 0, !.attempt = 0]
       ELSE IF ~g.step_success
            THEN [h EXCEPT !.pc = "finish", !.i = 0, !.attempt = 0]
            ELSE [h EXCEPT !.i = @ + 1, !.attempt = 0, !.pc = "top"]

\* line 175: the outcome of a run that left the loop without an exception.
\* current_step None raises AttributeError, which the handler at line 178
\* turns into success = False.
RunOutcome(g) ==
    /\ ~g.stop_event
    /\ g.current_step # NoStep
    /\ g.current_step = Len(g.steps) - 1

\* RunFinish with the completion callback inside the try block: an exception
\* skips it.
RunFinishSkipOnError(g) ==
    IF g.raised \/ (~g.stop_event /\ g.current_step = NoStep)
    THEN [g EXCEPT !.cancel_seen = g.stop_event, !.pc = "clear",
                   !.step_success = FALSE, !.raised = FALSE]
    ELSE [g EXCEPT !.completes = Append(@, RunOutcome(g)),
                   !.all_completes = Append(@, RunOutcome(g)),
                   !.cancel_seen = g.stop_event, !.pc = "clear",
                   !.step_success = FALSE, !.raised = FALSE]

\* lines 174-183: outcome and completion callback.
RunFinish(g) ==
    LET success == IF g.raised THEN FALSE ELSE RunOutcome(g)
    IN [g EXCEPT !.completes = Append(@, success),
                 !.all_completes = Append(@, success),
                 !.cancel_seen = g.stop_event, !.pc = "clear",
                 !.step_success = FALSE, !.raised = FALSE]

\* lines 185-190: the marker and the resume index are cleared, the thread ends.
RunClear(g) ==
    [g EXCEPT !.current_step = NoStep, !.checkpoint_step_index = NoIndex,
              !.pc = "dead"]

\* The thread's local variables (i, attempt, step_success) are kept at their
\* initial values once the loop is left: they are dead from there on.

\* One step of the execution thread of engine g.
ThreadStep(g, outcome) ==
    CASE g.pc = "begin" -> RunBegin(g)
      [] g.pc = "top" -> LoopTop(g)
      [] g.pc = "attempt" -> AttemptTop(g)
      [] g.pc = "acting" -> ActionEnd(g, outcome)
      [] g.pc = "report" -> StepReport(g)
      [] g.pc = "finish" -> RunFinish(g)
      [] g.pc = "clear" -> RunClear(g)
      [] OTHER -> g

\* ------------------------------------------------------------- actions
SetEngine(e, g) == engines' = [engines EXCEPT ![e] = g]

\* The execution thread of engine e takes a step other than the end of an
\* action in flight.
EngineThread(e) ==
    /\ engines[e].exists
    /\ ThreadAlive(engines[e])
    /\ engines[e].pc # "acting"
    /\ SetEngine(e, ThreadStep(engines[e], "truthy"))
    /\ UNCHANGED now
    /\ UNCHANGED execVars

\* The action in flight of engine e ends: it returns a truthy or a falsy
\* value, or raises.
EngineAction(e, outcome) ==
    /\ engines[e].exists
    /\ engines[e].pc = "acting"
    /\ SetEngine(e, ThreadStep(engines[e], outcome))
    /\ UNCHANGED now
    /\ UNCHANGED execVars

\* A caller invokes TutorialEngine.start() on engine e.
EngineStart(e) ==
    /\ engines[e].exists
    /\ engines[e].runs < MaxRuns
    /\ SetEngine(e, StartEngine(engines[e]))
    /\ UNCHANGED now
    /\ UNCHANGED execVars

\* A caller invokes TutorialEngine.stop() on engine e.
EngineStop(e) ==
    /\ engines[e].exists
    /\ SetEngine(e, StopEngine(engines[e]))
    /\ UNCHANGED now
    /\ UNCHANGED execVars

\* A caller invokes save_checkpoint with an explicit id.
EngineSaveCheckpoint(e, id) ==
    /\ engines[e].exists
    /\ SetEngine(e, save_checkpoint(engines[e], id))
    /\ UNCHANGED now
    /\ UNCHANGED execVars

\* A caller invokes restore_checkpoint with an id or with None.
EngineRestoreCheckpoint(e, id) ==
    /\ engines[e].exists
    /\ SetEngine(e, restore_checkpoint(engines[e], id))
    /\ UNCHANGED now
    /\ UNCHANGED execVars

\* The clock advances by one second.
Tick ==
    /\ now < MaxTime
    /\ now' = now + 1
    /\ UNCHANGED engines
    /\ UNCHANGED execVars

\* ------------------------------------------------------- ImageProcessor
\* Scale factors are in thousandths, scores and thresholds in hundredths.
TemplateNames == {"skip", "navigator", "late_image"}
DefaultThreshold == 80

\* template_thresholds, lines 31-52, for the names used here.
template_thresholds ==
    [n \in {"default", "skip", "navigator"} |->
        CASE n = "default" -> DefaultThreshold
          [] n = "skip" -> 75
          [] n = "navigator" -> 85]

\* resolution_map, lines 55-61, in the dictionary's order.
resolution_keys ==
    <<<<1920, 1080>>, <<2400, 1080>>, <<1280, 720>>, <<2560, 1440>>,
      <<3840, 2160>>>>
resolution_scale == <<1000, 1250, 667, 1333, 2000>>

NoResolution == <<0, 0>>
FrameResolutions == {<<1920, 1080>>, <<1280, 720>>, <<1600, 900>>}

Abs(x) == IF x < 0 THEN -x ELSE x

\* lines 134-135: min() over the keys returns the first key, in the
\* dictionary's order, of least distance.
closest_resolution(resolution) ==
    LET dist(k) == Abs(resolution_keys[k][1] - resolution[1])
                   + Abs(resolution_keys[k][2] - resolution[2])
    IN CHOOSE k \in 1..Len(resolution_keys) :
          \A j \in 1..Len(resolution_keys) :
              dist(k) < dist(j) \/ (dist(k) = dist(j) /\ k <= j)

\* The scale factor detect_resolution sets for a frame of this resolution.
ScaleFor(resolution) == resolution_scale[closest_resolution(resolution)]

\* ImageProcessor.__init__, lines 25-66: the templates found in the assets
\* directory are loaded (object 1 of each name; 0: not in the cache).
NewImageProcessor(loaded) ==
    [current_resolution |-> NoResolution, scale_factor |-> 1000,
     templates |-> [n \in TemplateNames |-> IF n \in loaded THEN 1 ELSE 0],
     loads |-> [n \in TemplateNames |-> IF n \in loaded THEN 1 ELSE 0]]

FinderIds == 1..2
NoFinder ==
    [pc |-> "idle", frame |-> NoResolution, name |-> "none", scale |-> 0,
     template |-> 0, fits |-> TRUE, combos |-> <<>>, result |-> 0,
     candidates |-> <<>>, max_results |-> 0, matches |-> <<>>,
     step |-> "none"]

\* get_optimal_threshold, lines 221-226.
get_optimal_threshold(template_name) ==
    IF template_name \in DOMAIN template_thresholds
    THEN template_thresholds[template_name]
    ELSE template_thresholds["default"]

\* What one combination of pre-processing and scale gives (lines 293-314):
\* the scaled template is larger than the frame, matchTemplate raises, or
\* minMaxLoc gives the best score of the combination.
NumCombos == 3
Scores == {70, 75, 80, 85}
ComboOutcomes ==
    {[kind |-> "skip", val |-> 0], [kind |-> "error", val |-> 0]}
    \cup {[kind |-> "score", val |-> v] : v \in Scores}

\* lines 285-314: the loop over the combinations keeps the first combination
\* of the highest score so far; best_val starts at -1.  A match is named by
\* the number of its combination (0: None).
RECURSIVE BestOf(_, _)
BestOf(combos, k) ==
    IF k = 0
    THEN [val |-> -100, match |-> 0]
    ELSE LET b == BestOf(combos, k - 1) IN
         IF combos[k].kind = "score" /\ combos[k].val > b.val
         THEN [val |-> combos[k].val, match |-> k]
         ELSE b

\* find_template_result with a strict comparison at line 317.
find_template_result_Strict(template_name, fits, combos) ==
    LET threshold == get_optimal_threshold(template_name)
        best == BestOf(combos, Len(combos))
    IN IF ~fits THEN 0
       ELSE IF best.val > threshold THEN best.match ELSE 0

\* find_template without a threshold argument, lines 255-257 and 280-324:
\* what it returns for a template that fits or does not fit the frame.
find_template_result(template_name, fits, combos) ==
    LET threshold == get_optimal_threshold(template_name)
        best == BestOf(combos, Len(combos))
    IN IF ~fits THEN 0
       ELSE IF best.val >= threshold THEN best.match ELSE 0
\* find_template with its threshold argument (NoThreshold: None), lines
\* 255-257 and 280-324.
NoThreshold == -1
find_template_with(threshold, template_name, fits, combos) ==
    LET used == IF threshold = NoThreshold
                THEN get_optimal_threshold(template_name) ELSE threshold
        best == BestOf(combos, Len(combos))
    IN IF ~fits THEN 0
       ELSE IF best.val >= used THEN best.match ELSE 0

\* The default of the threshold parameter of TutorialEngine.click_on_image
\* and wait_for_image (tutorial_engine.py lines 194 and 265), which both
\* pass it on to wait_for_template (lines 206-208 and 277-279).
EngineThreshold == 80
EngineImageSteps == {"click_on_image", "wait_for_image"}

\* wait_for_template's parameters; time is counted in units of 0.5 s.
DefaultMaxAttempts == 20
WaitTimeouts == {4, 20, 30}
WaitIntervals == {1, 2}
MaxCapture == 1
NoWaiter ==
    [pc |-> "idle", timeout |-> 0, interval |-> 0, attempts |-> 0,
     elapsed |-> 0, last |-> "none", raised |-> FALSE, result |-> "none"]
\* _click_until_image_found: max_clicks None, and the limit of step 52.
NoMaxClicks == -1
Step52MaxClicks == 7
MaxClickCount == 8
NoClicker ==
    [pc |-> "idle", max_clicks |-> NoMaxClicks, click_count |-> 0,
     result |-> "none"]

\* ---------------------------------------------- ParallelEmulatorExecutor
TaskIds == 1..MaxEngines
PoolIds == 1..MaxStarts
TaskKeys == Devices \X (0..MaxTime)
NoKey == <<NoDevice, 0>>

NoTask ==
    [exists |-> FALSE, emulator_id |-> NoDevice, task_id |-> NoKey,
     fstate |-> "none", result |-> FALSE, pool |-> 0, wpc |-> "none",
     eng |-> 0, cb_added |-> FALSE]

NoDispatcher == [pc |-> "none", task |-> 0]

\* The caller's thread: outside any call, with no call made yet.
NoCall == [pc |-> "idle", dev |-> NoDevice, last |-> <<>>, unreachable |-> {}]

\* EmulatorManager.__init__ (emulator_manager.py lines 20-28): the lock is
\* free (0; otherwise the thread that holds it) and no thread is inside a
\* method.  A thread's stack holds one frame per method it is inside,
\* the innermost last; ret is what its last outermost call returned.
ManagerThreads == 1..2
NoManager ==
    [lock |-> 0,
     threads |-> [th \in ManagerThreads |-> [stack |-> <<>>, ret |-> "none"]]]

\* ParallelEmulatorExecutor.__init__, lines 82-140, which constructs the
\* EmulatorManager at line 103 when none is passed in.
ExecutorObjectInit ==
    /\ adb_controllers = {}
    /\ image_processors = {}
    /\ tutorial_engines = [d \in Devices |-> 0]
    /\ current_tasks = [d \in Devices |-> 0]
    /\ task_queue = <<>>
    /\ futures = [k \in TaskKeys |-> 0]
    /\ executor = 0
    /\ stop_flag = FALSE
    /\ tasks = [t \in TaskIds |-> NoTask]
    /\ dispatchers = [p \in PoolIds |-> NoDispatcher]
    /\ work_queues = [p \in PoolIds |-> <<>>]
    /\ lock = 0
    /\ calls = NoCall
    /\ emulator_manager = NoManager

\* __init__ with every reference image of the assets directory loaded
\* (line 147), and no thread inside the ImageProcessor.
ExecutorInit ==
    /\ ExecutorObjectInit
    /\ global_image_processor = NewImageProcessor(TemplateNames)
    /\ finders = [th \in FinderIds |-> NoFinder]
    /\ waiter = NoWaiter
    /\ clicker = NoClicker

\* create_tutorial_steps: the script every executor-made engine runs.
TutorialScript == [k \in 1..ScriptLen |-> DefaultRetry]

\* CompletedTasks removing the entry of every device.
CompletedTasksEveryDevice(ct, task_id) == [d \in Devices |-> 0]

\* _on_task_completed, lines 479-484: the current_tasks entry whose task
\* carries this task_id is removed.
CompletedTasks(ct, task_id) ==
    [d \in Devices |->
        IF ct[d] # 0 /\ tasks[ct[d]].task_id = task_id THEN 0 ELSE ct[d]]

\* _on_task_completed, lines 486-488: the futures entry of this task_id is
\* removed.
CompletedFutures(fs, task_id) == [fs EXCEPT ![task_id] = 0]

FutureDone(t) == tasks[t].fstate \in {"cancelled", "finished"}

\* The future of task t gets its outcome and the pool's worker leaves the
\* work item at position wpc; the future's done-callback, when already added,
\* runs in the worker thread (_on_task_completed).
CompleteFuture(t, result, wpc) ==
    /\ tasks[t].cb_added => lock = 0
    /\ tasks' = [tasks EXCEPT ![t].fstate = "finished", ![t].result = result,
                              ![t].wpc = wpc, ![t].cb_added = FALSE,
                              ![t].pool = 0]
    /\ IF tasks[t].cb_added
       THEN /\ current_tasks' = CompletedTasks(current_tasks, tasks[t].task_id)
            /\ futures' = CompletedFutures(futures, tasks[t].task_id)
       ELSE UNCHANGED <<current_tasks, futures>>

\* run_task returns the function's value (lines 385-389).
FinishTask(t, result) == CompleteFuture(t, result, "done")

\* is_task_completed, lines 535-540.
is_task_completed(task_id) ==
    futures[task_id] # 0 /\ FutureDone(futures[task_id])

\* get_task_result, lines 508-523, called with a timeout: None when the
\* task_id is not in the futures map, when the future is cancelled
\* (CancelledError) and when the future is not done within the timeout;
\* the future's result otherwise.
get_task_result(task_id) ==
    IF futures[task_id] = 0 THEN "None"
    ELSE IF tasks[futures[task_id]].fstate # "finished" THEN "None"
    ELSE IF tasks[futures[task_id]].result THEN "True" ELSE "False"

NextEngine == Cardinality({e \in EngineIds : engines[e].exists}) + 1

\* initialize_emulator without the test of line 164.
initialize_emulator_NoTest(dev, check_device, reachable) ==
    IF check_device /\ ~reachable
    THEN [ok |-> FALSE, adb |-> adb_controllers, img |-> image_processors,
          created |-> TRUE, probed |-> TRUE]
    ELSE [ok |-> TRUE, adb |-> adb_controllers \cup {dev},
          img |-> image_processors \cup {dev},
          created |-> TRUE, probed |-> check_device]

\* initialize_emulator, lines 161-184, as a function of the registry: what it
\* returns (ok), the two maps after it, and whether it constructed an
\* ADBController (created) and called wait_for_device (probed).  reachable is
\* the answer of wait_for_device.
initialize_emulator(dev, check_device, reachable) ==
    IF dev \in adb_controllers
    THEN [ok |-> TRUE, adb |-> adb_controllers, img |-> image_processors,
          created |-> FALSE, probed |-> FALSE]
    ELSE IF check_device /\ ~reachable
    THEN [ok |-> FALSE, adb |-> adb_controllers, img |-> image_processors,
          created |-> TRUE, probed |-> TRUE]
    ELSE [ok |-> TRUE, adb |-> adb_controllers \cup {dev},
          img |-> image_processors \cup {dev},
          created |-> TRUE, probed |-> check_device]

\* start_tutorial, lines 299-323 (initialize_emulator with check_device=False,
\* initialize_tutorial_engine, then the task is created and enqueued).
StartTutorial(dev, server_range) ==
    /\ NextEngine <= MaxEngines
    /\ dev = "A" \/ NextEngine > 1
    /\ lock = 0
    /\ LET e == NextEngine IN
       /\ adb_controllers' = initialize_emulator(dev, FALSE, TRUE).adb
       /\ image_processors' = initialize_emulator(dev, FALSE, TRUE).img
       /\ engines' = [engines EXCEPT
                        ![e] = NewEngine(dev, TutorialScript, server_range, FALSE, FALSE)]
       /\ tutorial_engines' = [tutorial_engines EXCEPT ![dev] = e]
       /\ tasks' = [tasks EXCEPT
                      ![e] = [NoTask EXCEPT !.exists = TRUE, !.emulator_id = dev,
                                            !.task_id = <<dev, now>>]]
       /\ current_tasks' = [current_tasks EXCEPT ![dev] = e]
       /\ task_queue' = Append(task_queue, e)
    /\ UNCHANGED <<now, futures, executor, stop_flag, max_workers, lock, calls, dispatchers,
                   work_queues,
                   imgVars, emulator_manager>>

\* cleanup_emulator, lines 263-279.
CleanupEmulator(dev) ==
    /\ lock = 0
    /\ engines' =
         IF tutorial_engines[dev] # 0 /\ is_running(engines[tutorial_engines[dev]])
         THEN [engines EXCEPT ![tutorial_engines[dev]] = StopEngine(@)]
         ELSE engines
    /\ adb_controllers' = adb_controllers \ {dev}
    /\ image_processors' = image_processors \ {dev}
    /\ tutorial_engines' = [tutorial_engines EXCEPT ![dev] = 0]
    /\ current_tasks' = [current_tasks EXCEPT ![dev] = 0]
    /\ UNCHANGED <<now, task_queue, futures, executor, stop_flag, max_workers, lock, calls,
                   tasks, dispatchers, work_queues,
                   imgVars, emulator_manager>>

PoolsStarted == Cardinality({p \in PoolIds : dispatchers[p].pc # "none"})

\* start, lines 398-416.
Start ==
    /\ executor = 0
    /\ PoolsStarted < MaxStarts
    /\ executor' = PoolsStarted + 1
    /\ stop_flag' = FALSE
    /\ dispatchers' = [dispatchers EXCEPT ![PoolsStarted + 1].pc = "get"]
    /\ UNCHANGED <<engines, now, adb_controllers, image_processors,
                   tutorial_engines, current_tasks, task_queue, futures,
                   max_workers, lock, calls, tasks, work_queues,
                   imgVars, emulator_manager>>

\* The first call of start().
FirstStart == PoolsStarted = 0 /\ Start

\* The tasks whose future stop() cancels: in the futures map and not yet
\* taken by a worker (Future.cancel fails on a running future).
Cancellable == {t \in TaskIds : tasks[t].fstate = "pending"
                                 /\ futures[tasks[t].task_id] = t}

\* stop, lines 422-438.  A cancelled work item is skipped by the pool's
\* worker, so it leaves the pool's queue here.
Stop ==
    /\ executor # 0
    /\ lock = 0
    /\ stop_flag' = TRUE
    /\ LET called == {t \in Cancellable : tasks[t].cb_added}
           ids == {tasks[t].task_id : t \in called}
       IN /\ tasks' = [t \in TaskIds |->
                         IF t \in Cancellable
                         THEN [tasks[t] EXCEPT !.fstate = "cancelled", !.wpc = "done",
                                               !.cb_added = FALSE, !.pool = 0]
                         ELSE tasks[t]]
          /\ current_tasks' =
               [d \in Devices |->
                  IF current_tasks[d] # 0 /\ tasks[current_tasks[d]].task_id \in ids
                  THEN 0 ELSE current_tasks[d]]
          /\ futures' = [k \in TaskKeys |-> IF k \in ids THEN 0 ELSE futures[k]]
    /\ work_queues' = [work_queues EXCEPT
                         ![executor] = SelectSeq(@, LAMBDA t : t \notin Cancellable)]
    /\ executor' = 0
    /\ UNCHANGED <<engines, now, adb_controllers, image_processors,
                   tutorial_engines, task_queue, max_workers, lock, calls, dispatchers,
                   imgVars, emulator_manager>>

\* ---- the dispatch loop, _task_queue_worker, lines 442-469

\* line 446: the loop condition, evaluated when the thread starts and after
\* each pass of the loop body.
LoopHead == IF stop_flag THEN "exited" ELSE "get"

\* line 450: a task is taken from the queue.
DispatcherGet(p) ==
    /\ dispatchers[p].pc = "get"
    /\ task_queue # <<>>
    /\ dispatchers' = [dispatchers EXCEPT ![p] = [pc |-> "submit",
                                                  task |-> Head(task_queue)]]
    /\ task_queue' = Tail(task_queue)
    /\ UNCHANGED <<engines, now, adb_controllers, image_processors,
                   tutorial_engines, current_tasks, futures, executor, stop_flag,
                   max_workers, lock, calls, tasks, work_queues,
                   imgVars, emulator_manager>>

\* lines 446-452: the queue stayed empty for the timeout and the loop
\* condition finds the stop flag set.  (With the flag clear the thread is
\* back in get: no change of state.)
DispatcherTimeout(p) ==
    /\ dispatchers[p].pc = "get"
    /\ task_queue = <<>>
    /\ stop_flag
    /\ dispatchers' = [dispatchers EXCEPT ![p].pc = "exited"]
    /\ UNCHANGED <<engines, now, adb_controllers, image_processors,
                   tutorial_engines, current_tasks, task_queue, futures, executor,
                   stop_flag, max_workers, lock, calls, tasks, work_queues,
                   imgVars, emulator_manager>>

\* lines 455-457, and 465-467 when the pool is None: submit raises and the
\* task is neither submitted nor put back.
DispatcherSubmit(p) ==
    /\ dispatchers[p].pc = "submit"
    /\ lock = 0
    /\ LET t == dispatchers[p].task IN
       IF executor = 0
       THEN /\ dispatchers' = [dispatchers EXCEPT ![p] = [pc |-> LoopHead, task |-> 0]]
            /\ UNCHANGED <<tasks, work_queues, futures>>
       ELSE /\ tasks' = [tasks EXCEPT ![t].fstate = "pending", ![t].pool = executor]
            /\ work_queues' = [work_queues EXCEPT ![executor] = Append(@, t)]
            /\ futures' = [futures EXCEPT ![tasks[t].task_id] = t]
            /\ dispatchers' = [dispatchers EXCEPT ![p].pc = "addcb"]
    /\ UNCHANGED <<engines, now, adb_controllers, image_processors,
                   tutorial_engines, current_tasks, task_queue, executor,
                   stop_flag, max_workers, lock, calls,
                   imgVars, emulator_manager>>

\* lines 460-463: add_done_callback runs the callback at once on a future
\* that is already done.
DispatcherAddCallback(p) ==
    /\ dispatchers[p].pc = "addcb"
    /\ FutureDone(dispatchers[p].task) => lock = 0
    /\ LET t == dispatchers[p].task IN
       IF FutureDone(t)
       THEN /\ current_tasks' = CompletedTasks(current_tasks, tasks[t].task_id)
            /\ futures' = CompletedFutures(futures, tasks[t].task_id)
            /\ UNCHANGED tasks
       ELSE /\ tasks' = [tasks EXCEPT ![t].cb_added = TRUE]
            /\ UNCHANGED <<current_tasks, futures>>
    /\ dispatchers' = [dispatchers EXCEPT ![p] = [pc |-> LoopHead, task |-> 0]]
    /\ UNCHANGED <<engines, now, adb_controllers, image_processors,
                   tutorial_engines, task_queue, executor, stop_flag, max_workers, lock, calls,
                   work_queues,
                   imgVars, emulator_manager>>

\* ---- a pool worker running ParallelEmulatorExecutor._run_tutorial

Running(p) == {t \in TaskIds : tasks[t].fstate = "running" /\ tasks[t].pool = p}

\* A free worker of pool p takes the next work item and runs lines 336-347:
\* the registry lookups under the lock.
WorkerTake(p) ==
    /\ work_queues[p] # <<>>
    /\ lock = 0
    /\ Cardinality(Running(p)) < max_workers
    /\ LET t == Head(work_queues[p])
           dev == tasks[t].emulator_id
       IN IF dev \notin adb_controllers \/ tutorial_engines[dev] = 0
          THEN FinishTask(t, FALSE)
          ELSE /\ tasks' = [tasks EXCEPT ![t].fstate = "running",
                                         ![t].wpc = "wait",
                                         ![t].eng = tutorial_engines[dev]]
               /\ UNCHANGED <<current_tasks, futures>>
    /\ work_queues' = [work_queues EXCEPT ![p] = Tail(@)]
    /\ UNCHANGED <<engines, now, adb_controllers, image_processors,
                   tutorial_engines, task_queue, executor, stop_flag, max_workers, lock, calls,
                   dispatchers,
                   imgVars, emulator_manager>>

\* lines 350-355: wait_for_device returned True and the engine is started.
WorkerDeviceReady(t) ==
    /\ tasks[t].wpc = "wait"
    /\ engines' = [engines EXCEPT ![tasks[t].eng] = StartEngine(@)]
    /\ tasks' = [tasks EXCEPT ![t].wpc = "poll"]
    /\ UNCHANGED <<now, adb_controllers, image_processors, tutorial_engines,
                   current_tasks, task_queue, futures, executor, stop_flag,
                   max_workers, lock, calls, dispatchers, work_queues,
                   imgVars, emulator_manager>>

\* lines 350-352: wait_for_device returned False.
WorkerDeviceUnreachable(t) ==
    /\ tasks[t].wpc = "wait"
    /\ FinishTask(t, FALSE)
    /\ UNCHANGED <<engines, now, adb_controllers, image_processors,
                   tutorial_engines, task_queue, executor, stop_flag, max_workers, lock, calls,
                   dispatchers, work_queues,
                   imgVars, emulator_manager>>

\* WorkerRaise with an exception that ends the pool's worker: the future is
\* never completed.
WorkerRaiseKillsWorker(t) ==
    /\ tasks[t].wpc \in {"wait", "poll"}
    /\ tasks' = [tasks EXCEPT ![t].wpc = "raised"]
    /\ UNCHANGED <<engines, now, adb_controllers, image_processors,
                   tutorial_engines, current_tasks, task_queue, futures,
                   executor, stop_flag, max_workers, lock, calls,
                   dispatchers, work_queues,
                   imgVars, emulator_manager>>

\* An unexpected exception inside the task's function, at the device wait or
\* the engine start (lines 350-355) or in the polling loop (lines 358-364):
\* _run_tutorial catches it and returns False (lines 371-373); run_task logs
\* and re-raises what a function lets through (lines 390-392), and the pool
\* stores that in the future.  The engine is left as it is.
WorkerRaise(t) ==
    /\ tasks[t].wpc \in {"wait", "poll"}
    /\ CompleteFuture(t, FALSE, "raised")
    /\ UNCHANGED <<engines, now, adb_controllers, image_processors,
                   tutorial_engines, task_queue, executor, stop_flag,
                   max_workers, lock, calls, dispatchers, work_queues,
                   imgVars, emulator_manager>>

\* line 367: the worker's result when the engine is not stopped by it.
WorkerSuccess(g) == ~stop_flag /\ g.current_step = NoStep

\* WorkerPollExit with a polling loop that only the stop flag ends.
WorkerPollUntilStopped(t) ==
    /\ tasks[t].wpc = "poll"
    /\ stop_flag
    /\ IF is_running(engines[tasks[t].eng])
       THEN /\ engines' = [engines EXCEPT ![tasks[t].eng] = StopEngine(@)]
            /\ FinishTask(t, FALSE)
       ELSE /\ FinishTask(t, FALSE)
            /\ UNCHANGED engines
    /\ UNCHANGED <<now, adb_controllers, image_processors, tutorial_engines,
                   task_queue, executor, stop_flag, max_workers, lock, calls,
                   dispatchers, work_queues,
                   imgVars, emulator_manager>>

\* lines 358-369: the polling loop ends, because the engine's thread has
\* ended or the stop flag is set.  With the flag set and the thread alive the
\* worker calls TutorialEngine.stop, whose bounded join returns, and the
\* result is False.
WorkerPollExit(t) ==
    /\ tasks[t].wpc = "poll"
    /\ ~(is_running(engines[tasks[t].eng]) /\ ~stop_flag)
    /\ IF stop_flag /\ is_running(engines[tasks[t].eng])
       THEN /\ engines' = [engines EXCEPT ![tasks[t].eng] = StopEngine(@)]
            /\ FinishTask(t, FALSE)
       ELSE /\ FinishTask(t, WorkerSuccess(engines[tasks[t].eng]))
            /\ UNCHANGED engines
    /\ UNCHANGED <<now, adb_controllers, image_processors, tutorial_engines,
                   task_queue, executor, stop_flag, max_workers, lock, calls, dispatchers,
                   work_queues,
                   imgVars, emulator_manager>>

\* The clock as the executor reads it: only start_tutorial reads it, and only
\* whether two submissions fall into the same second matters.
ExecTick ==
    /\ NextEngine <= MaxEngines
    /\ \E t \in TaskIds : tasks[t].exists /\ tasks[t].task_id[2] = now
    /\ Tick

\* ------------------------------------------------------ the whole system
Init ==
    /\ now = 0
    /\ engines = [e \in EngineIds |-> NoEngine]
    /\ ExecutorInit
    /\ max_workers \in 1..MaxWorkers

Next ==
    \/ \E d \in Devices, sr \in ServerRanges : StartTutorial(d, sr)
    \/ \E d \in Devices : CleanupEmulator(d)
    \/ FirstStart
    \/ Stop
    \/ \E p \in PoolIds : DispatcherGet(p)
    \/ \E p \in PoolIds : DispatcherTimeout(p)
    \/ \E p \in PoolIds : DispatcherSubmit(p)
    \/ \E p \in PoolIds : DispatcherAddCallback(p)
    \/ \E p \in PoolIds : WorkerTake(p)
    \/ \E t \in TaskIds : WorkerDeviceReady(t)
    \/ \E t \in TaskIds : WorkerDeviceUnreachable(t)
    \/ \E t \in TaskIds : WorkerPollExit(t)
    \/ \E e \in EngineIds : EngineThread(e)
    \/ \E e \in EngineIds, o \in {"truthy", "raise"} : EngineAction(e, o)
    \/ ExecTick

\* The executor with one pool lifetime: the caller submits up to MaxEngines
\* runs on two devices, starts the executor once and may stop it.
Spec == Init /\ [][Next]_vars

\* ------------------------------------------- the registry and its lock
\* initialize_emulator and cleanup_emulator step by step where they block
\* inside "with self.lock": the caller's thread holds the lock while it waits
\* for the device (line 173) or joins the engine's thread (line 267).

\* initialize_emulator(dev, check_device) up to its return or up to
\* wait_for_device.
InitializeEmulator(dev, check_device) ==
    /\ calls.pc = "idle"
    /\ lock = 0
    /\ IF dev \notin adb_controllers /\ check_device
       THEN /\ lock' = 1
            /\ calls' = [calls EXCEPT !.pc = "probe", !.dev = dev]
            /\ UNCHANGED <<adb_controllers, image_processors>>
       ELSE LET r == initialize_emulator(dev, check_device, TRUE) IN
            /\ adb_controllers' = r.adb
            /\ image_processors' = r.img
            /\ calls' = [calls EXCEPT
                           !.last = <<dev, dev \in adb_controllers, r.ok,
                                      r.created, r.probed>>]
            /\ UNCHANGED lock
    /\ UNCHANGED <<engines, now, tutorial_engines, current_tasks, task_queue,
                   futures, executor, stop_flag, max_workers, tasks, dispatchers,
                   work_queues,
                   imgVars, emulator_manager>>

\* wait_for_device(timeout=5) returns inside initialize_emulator; the
\* controller is registered when the device answered; the lock is released.
InitializeProbeEnd(reachable) ==
    /\ calls.pc = "probe"
    /\ LET r == initialize_emulator(calls.dev, TRUE, reachable) IN
       /\ adb_controllers' = r.adb
       /\ image_processors' = r.img
       /\ calls' = [calls EXCEPT
                      !.pc = "idle", !.dev = NoDevice,
                      !.last = <<calls.dev, FALSE, r.ok, r.created, r.probed>>]
    /\ lock' = 0
    /\ UNCHANGED <<engines, now, tutorial_engines, current_tasks, task_queue,
                   futures, executor, stop_flag, max_workers, tasks, dispatchers,
                   work_queues,
                   imgVars, emulator_manager>>

\* cleanup_emulator of a device whose engine is running, up to the join
\* inside TutorialEngine.stop (lines 263-267).
CleanupBegin(dev) ==
    /\ calls.pc = "idle"
    /\ lock = 0
    /\ tutorial_engines[dev] # 0
    /\ is_running(engines[tutorial_engines[dev]])
    /\ engines' = [engines EXCEPT ![tutorial_engines[dev]] = StopEngine(@)]
    /\ lock' = 1
    /\ calls' = [calls EXCEPT !.pc = "join", !.dev = dev]
    /\ UNCHANGED <<now, adb_controllers, image_processors, tutorial_engines,
                   current_tasks, task_queue, futures, executor, stop_flag,
                   max_workers, tasks, dispatchers, work_queues,
                   imgVars, emulator_manager>>

\* The join returns (the thread has ended or 3 s have passed) and
\* cleanup_emulator removes the device's entries, lines 270-277.
CleanupEnd ==
    /\ calls.pc = "join"
    /\ adb_controllers' = adb_controllers \ {calls.dev}
    /\ image_processors' = image_processors \ {calls.dev}
    /\ tutorial_engines' = [tutorial_engines EXCEPT ![calls.dev] = 0]
    /\ current_tasks' = [current_tasks EXCEPT ![calls.dev] = 0]
    /\ lock' = 0
    /\ calls' = [calls EXCEPT !.pc = "idle", !.dev = NoDevice]
    /\ UNCHANGED <<engines, now, task_queue, futures, executor, stop_flag,
                   max_workers, tasks, dispatchers, work_queues,
                   imgVars, emulator_manager>>

\* cleanup_emulator of a device without a running engine: it does not block.
CleanupIdle(dev) ==
    /\ calls.pc = "idle"
    /\ ~(tutorial_engines[dev] # 0 /\ is_running(engines[tutorial_engines[dev]]))
    /\ CleanupEmulator(dev)

\* The first call of start_tutorial.
FirstTutorial(dev, server_range) ==
    /\ NextEngine = 1
    /\ StartTutorial(dev, server_range)

RegistryNext ==
    \/ \E d \in Devices, c \in BOOLEAN : InitializeEmulator(d, c)
    \/ \E r \in BOOLEAN : InitializeProbeEnd(r)
    \/ \E d \in Devices : CleanupBegin(d)
    \/ CleanupEnd
    \/ \E d \in Devices : CleanupIdle(d)
    \/ \E d \in Devices, sr \in ServerRanges : FirstTutorial(d, sr)
    \/ FirstStart
    \/ \E p \in PoolIds : DispatcherGet(p)
    \/ \E p \in PoolIds : DispatcherSubmit(p)
    \/ \E p \in PoolIds : DispatcherAddCallback(p)
    \/ \E p \in PoolIds : WorkerTake(p)
    \/ \E t \in TaskIds : WorkerDeviceReady(t)
    \/ \E t \in TaskIds : WorkerDeviceUnreachable(t)
    \/ \E t \in TaskIds : WorkerPollExit(t)
    \/ \E e \in EngineIds : EngineThread(e)
    \/ \E e \in EngineIds : EngineAction(e, "truthy")

RegistryInit ==
    /\ now = 0
    /\ engines = [e \in EngineIds |-> NoEngine]
    /\ ExecutorInit
    /\ max_workers = 1

\* One submitted run, with the caller initializing and cleaning up devices.
RegistrySpec == RegistryInit /\ [][RegistryNext]_vars

\* ------------------------------------- the executor started and never stopped
\* Every device answers, every step attempt ends, and the scheduler lets the
\* dispatch loop, the pool workers and the engines' threads run.
LiveNext ==
    \/ \E d \in Devices, sr \in ServerRanges : StartTutorial(d, sr)
    \/ FirstStart
    \/ \E p \in PoolIds : DispatcherGet(p)
    \/ \E p \in PoolIds : DispatcherSubmit(p)
    \/ \E p \in PoolIds : DispatcherAddCallback(p)
    \/ \E p \in PoolIds : WorkerTake(p)
    \/ \E t \in TaskIds : WorkerDeviceReady(t)
    \/ \E t \in TaskIds : WorkerPollExit(t)
    \/ \E e \in EngineIds : EngineThread(e)
    \/ \E e \in EngineIds, o \in {"truthy", "raise"} : EngineAction(e, o)
    \/ ExecTick

LiveSpec ==
    /\ Init
    /\ [][LiveNext]_vars
    /\ WF_vars(\E p \in PoolIds : DispatcherGet(p))
    /\ WF_vars(\E p \in PoolIds : DispatcherSubmit(p))
    /\ WF_vars(\E p \in PoolIds : DispatcherAddCallback(p))
    /\ WF_vars(\E p \in PoolIds : WorkerTake(p))
    /\ WF_vars(\E t \in TaskIds : WorkerDeviceReady(t))
    /\ WF_vars(\E t \in TaskIds : WorkerPollExit(t))
    /\ WF_vars(\E e \in EngineIds : EngineThread(e))
    /\ WF_vars(\E e \in EngineIds, o \in {"truthy", "raise"} : EngineAction(e, o))

\* ------------------------------------------- the worker's wait for the device
MaxPolls == 2

\* What execute_command("get-state") returns (adb_controller.py lines 43-71):
\* the state adb prints for a device it knows, or, after the retries, adb's
\* error text or the text of line 65.
GetStateReplies ==
    {"device", "offline", "error: device offline",
     "error: device 'A' not found", "error: no devices/emulators found",
     "ERROR: Timeout"}

\* The device is online when adb prints the state "device".
Reachable(reply) == reply = "device"

\* Python's `sub in s` on strings.
In(sub, s) ==
    \E i \in 1..(Len(s) - Len(sub) + 1) : SubSeq(s, i, i + Len(sub) - 1) = sub

\* adb_controller.py lines 413-421: the loop returns True at the first reply
\* in which the text "device" occurs, and False when the timeout ends it.
wait_for_device(replies) ==
    \E i \in 1..Len(replies) : In("device", replies[i])

\* parallel_executor.py lines 350-355 with the replies that the polls of
\* wait_for_device(timeout=10) received.
WorkerWaitForDevice(t, replies) ==
    /\ tasks[t].wpc = "wait"
    /\ IF wait_for_device(replies)
       THEN /\ engines' = [engines EXCEPT ![tasks[t].eng] = StartEngine(@)]
            /\ tasks' = [tasks EXCEPT ![t].wpc = "poll"]
            /\ UNCHANGED <<current_tasks, futures>>
       ELSE /\ FinishTask(t, FALSE)
            /\ UNCHANGED engines
    /\ calls' = IF \A i \in 1..Len(replies) : ~Reachable(replies[i])
                THEN [calls EXCEPT !.unreachable = @ \cup {t}]
                ELSE calls
    /\ UNCHANGED <<now, adb_controllers, image_processors, tutorial_engines,
                   task_queue, executor, stop_flag, max_workers, lock,
                   dispatchers, work_queues,
                   imgVars, emulator_manager>>

DeviceNext ==
    \/ \E d \in Devices, sr \in ServerRanges : StartTutorial(d, sr)
    \/ FirstStart
    \/ \E p \in PoolIds : DispatcherGet(p)
    \/ \E p \in PoolIds : DispatcherSubmit(p)
    \/ \E p \in PoolIds : DispatcherAddCallback(p)
    \/ \E p \in PoolIds : WorkerTake(p)
    \/ \E t \in TaskIds, n \in 1..MaxPolls :
          \E replies \in [1..n -> GetStateReplies] : WorkerWaitForDevice(t, replies)
    \/ \E t \in TaskIds : WorkerPollExit(t)
    \/ \E e \in EngineIds : EngineThread(e)
    \/ \E e \in EngineIds : EngineAction(e, "truthy")

DeviceSpec == Init /\ [][DeviceNext]_vars

\* ---- ADBController.execute_command, adb_controller.py lines 29-71
AdbRetryCount == 2

\* What one run of `adb -s <id> get-state` does (line 45): it exits with
\* status 0 and prints the state, it exits with an error status and prints
\* adb's message (CalledProcessError, line 47), or it does not end within
\* 10 s (TimeoutExpired, line 60).
AttemptOutcomes ==
    {[kind |-> "ok", text |-> "device"],
     [kind |-> "ok", text |-> "offline"],
     [kind |-> "failed", text |-> "error: device offline"],
     [kind |-> "failed", text |-> "error: device 'A' not found"],
     [kind |-> "timeout", text |-> ""]}

CommandRuns == [1..(AdbRetryCount + 1) -> AttemptOutcomes]

\* lines 43-65 from the k-th attempt on: the output of the first attempt
\* that succeeds; after the last attempt, the error message or the text of
\* line 65.
RECURSIVE execute_command_from(_, _)
execute_command_from(attempts, k) ==
    IF attempts[k].kind = "ok" THEN attempts[k].text
    ELSE IF k < AdbRetryCount + 1 THEN execute_command_from(attempts, k + 1)
    ELSE IF attempts[k].kind = "failed" THEN attempts[k].text
    ELSE "ERROR: Timeout"

execute_command(attempts) == execute_command_from(attempts, 1)

\* The command succeeded: one of its attempts ended with status 0.
CommandSucceeded(attempts) ==
    \E k \in 1..(AdbRetryCount + 1) : attempts[k].kind = "ok"

\* A caller's wait_for_device (lines 413-421) whose polls run the command as
\* given; polls after the one that ends the wait are not made.
AdbWaitForDevice(polls) ==
    /\ calls.pc = "idle"
    /\ calls' = [calls EXCEPT
                   !.last = <<"wait_for_device", polls,
                              wait_for_device([i \in 1..Len(polls) |->
                                                  execute_command(polls[i])])>>]
    /\ UNCHANGED <<engines, now, adb_controllers, image_processors,
                   tutorial_engines, current_tasks, task_queue, futures,
                   executor, stop_flag, max_workers, tasks, dispatchers,
                   work_queues, lock,
                   imgVars, emulator_manager>>

\* One wait per behaviour: every input of the call is tried once.
AdbNext ==
    /\ calls.last = <<>>
    /\ \E n \in 1..MaxPolls : \E polls \in [1..n -> CommandRuns] :
          AdbWaitForDevice(polls)

AdbSpec == Init /\ [][AdbNext]_vars

\* ------------------------------------------------ cleanup_emulator, in steps
\* cleanup_emulator(dev) called by a caller's thread: the lock is taken and
\* line 266 tests is_running() of the registered engine.
CleanupEnter(dev) ==
    /\ calls.pc = "idle"
    /\ lock = 0
    /\ lock' = 1
    /\ LET e == tutorial_engines[dev]
           running == e # 0 /\ is_running(engines[e])
       IN calls' = [calls EXCEPT !.pc = IF running THEN "stop" ELSE "delete",
                                 !.dev = dev,
                                 !.last = <<"entered", dev, running, e>>]
    /\ UNCHANGED <<engines, now, adb_controllers, image_processors,
                   tutorial_engines, current_tasks, task_queue, futures,
                   executor, stop_flag, max_workers, tasks, dispatchers,
                   work_queues,
                   imgVars, emulator_manager>>

\* line 267, TutorialEngine.stop() lines 104-109: the thread is tested again;
\* a live thread gets the flag and is joined, otherwise stop() only logs.
CleanupStopCall ==
    /\ calls.pc = "stop"
    /\ LET e == tutorial_engines[calls.dev] IN
       /\ engines' = [engines EXCEPT ![e] = StopEngine(@)]
       /\ calls' = [calls EXCEPT
                      !.pc = IF ThreadAlive(engines[e]) THEN "join" ELSE "delete"]
    /\ UNCHANGED <<now, adb_controllers, image_processors, tutorial_engines,
                   current_tasks, task_queue, futures, executor, stop_flag,
                   max_workers, lock, tasks, dispatchers, work_queues,
                   imgVars, emulator_manager>>

\* join(timeout=3.0) returns: the thread has ended or 3 s have passed.
CleanupJoinEnd ==
    /\ calls.pc = "join"
    /\ calls' = [calls EXCEPT !.pc = "delete"]
    /\ UNCHANGED <<engines, now, adb_controllers, image_processors,
                   tutorial_engines, current_tasks, task_queue, futures,
                   executor, stop_flag, max_workers, lock, tasks, dispatchers,
                   work_queues,
                   imgVars, emulator_manager>>

\* lines 270-277 and the return: the entries are deleted, the lock released.
CleanupReturn ==
    /\ calls.pc = "delete"
    /\ adb_controllers' = adb_controllers \ {calls.dev}
    /\ image_processors' = image_processors \ {calls.dev}
    /\ tutorial_engines' = [tutorial_engines EXCEPT ![calls.dev] = 0]
    /\ current_tasks' = [current_tasks EXCEPT ![calls.dev] = 0]
    /\ lock' = 0
    /\ calls' = [calls EXCEPT !.pc = "idle", !.dev = NoDevice,
                              !.last = <<"returned", calls.last[2],
                                         calls.last[3], calls.last[4]>>]
    /\ UNCHANGED <<engines, now, task_queue, futures, executor, stop_flag,
                   max_workers, tasks, dispatchers, work_queues,
                   imgVars, emulator_manager>>

\* The completion callback of engine e (tutorial_engine.py line 183, run by
\* the engine's own thread) calls cleanup_emulator for the engine's device
\* while e is the registered engine.  is_running() is True, stop() sets the
\* flag and joins the calling thread itself: Thread.join raises RuntimeError,
\* the handler of lines 281-282 logs it and lines 270-277 are skipped.
CleanupFromCallback(e) ==
    /\ engines[e].exists
    /\ engines[e].pc = "finish"
    /\ calls.pc = "idle"
    /\ lock = 0
    /\ tutorial_engines[engines[e].dev] = e
    /\ engines' = [engines EXCEPT
                     ![e] = [RunFinish(@) EXCEPT !.stop_event = TRUE]]
    /\ calls' = [calls EXCEPT
                   !.last = <<"returned", engines[e].dev, TRUE, e,
                              engines[e].runs>>]
    /\ UNCHANGED <<now, adb_controllers, image_processors, tutorial_engines,
                   current_tasks, task_queue, futures, executor, stop_flag,
                   max_workers, lock, tasks, dispatchers, work_queues,
                   imgVars, emulator_manager>>

CleanupNext ==
    \/ \E d \in Devices, sr \in ServerRanges : StartTutorial(d, sr)
    \/ FirstStart
    \/ \E p \in PoolIds : DispatcherGet(p)
    \/ \E p \in PoolIds : DispatcherSubmit(p)
    \/ \E p \in PoolIds : DispatcherAddCallback(p)
    \/ \E p \in PoolIds : WorkerTake(p)
    \/ \E t \in TaskIds : WorkerDeviceReady(t)
    \/ \E t \in TaskIds : WorkerPollExit(t)
    \/ \E e \in EngineIds : EngineThread(e)
    \/ \E e \in EngineIds : EngineAction(e, "truthy")
    \/ \E d \in Devices : CleanupEnter(d)
    \/ CleanupStopCall
    \/ CleanupJoinEnd
    \/ CleanupReturn
    \/ \E e \in EngineIds : CleanupFromCallback(e)

CleanupSpec == RegistryInit /\ [][CleanupNext]_vars

\* ---------------------------------- threads inside the shared ImageProcessor
notImgVars ==
    <<engines, now, adb_controllers, image_processors, tutorial_engines,
      current_tasks, task_queue, futures, executor, stop_flag, max_workers,
      tasks, dispatchers, work_queues, lock, calls, emulator_manager>>

SetFinder(th, f) == finders' = [finders EXCEPT ![th] = f]

\* find_template(screenshot, template_name) is called by thread th with a
\* non-empty frame of the given resolution (lines 248-250 passed).
FindCall(th, frame, name) ==
    /\ finders[th].pc = "idle"
    /\ SetFinder(th, [NoFinder EXCEPT !.pc = "detect", !.frame = frame,
                                      !.name = name])
    /\ UNCHANGED <<global_image_processor, waiter, clicker>>
    /\ UNCHANGED notImgVars

\* detect_resolution, lines 127-131: the resolution is compared with the
\* stored one and stored when it differs.
FindDetect(th) ==
    /\ finders[th].pc = "detect"
    /\ IF global_image_processor.current_resolution # finders[th].frame
       THEN /\ global_image_processor' =
                 [global_image_processor EXCEPT
                    !.current_resolution = finders[th].frame]
            /\ SetFinder(th, [finders[th] EXCEPT !.pc = "scale"])
       ELSE /\ SetFinder(th, [finders[th] EXCEPT !.pc = "read"])
            /\ UNCHANGED global_image_processor
    /\ UNCHANGED <<waiter, clicker>>
    /\ UNCHANGED notImgVars

\* detect_resolution, lines 133-137: the scale factor of the closest known
\* resolution is stored.
FindSetScale(th) ==
    /\ finders[th].pc = "scale"
    /\ global_image_processor' =
         [global_image_processor EXCEPT
            !.scale_factor = ScaleFor(finders[th].frame)]
    /\ SetFinder(th, [finders[th] EXCEPT !.pc = "read"])
    /\ UNCHANGED <<waiter, clicker>>
    /\ UNCHANGED notImgVars

\* lines 263-265: scale_variations is built from self.scale_factor.
FindReadScale(th) ==
    /\ finders[th].pc = "read"
    /\ SetFinder(th, [finders[th] EXCEPT
                        !.pc = "lookup",
                        !.scale = global_image_processor.scale_factor])
    /\ UNCHANGED <<global_image_processor, waiter, clicker>>
    /\ UNCHANGED notImgVars

\* line 268: the cache is tested for the name (every name used here has its
\* file in the assets directory).
FindLookup(th) ==
    /\ finders[th].pc = "lookup"
    /\ SetFinder(th, [finders[th] EXCEPT
                        !.pc = IF global_image_processor.templates[finders[th].name] = 0
                               THEN "load" ELSE "use"])
    /\ UNCHANGED <<global_image_processor, waiter, clicker>>
    /\ UNCHANGED notImgVars

\* lines 270-272: cv2.imread builds a new image object, which is stored in
\* the cache under the name.
FindLoad(th) ==
    /\ finders[th].pc = "load"
    /\ LET n == finders[th].name
           obj == global_image_processor.loads[n] + 1
       IN global_image_processor' =
            [global_image_processor EXCEPT !.templates[n] = obj,
                                           !.loads[n] = obj]
    /\ SetFinder(th, [finders[th] EXCEPT !.pc = "use"])
    /\ UNCHANGED <<waiter, clicker>>
    /\ UNCHANGED notImgVars

\* line 278: template = self.templates[template_name].
FindUse(th) ==
    /\ finders[th].pc = "use"
    /\ SetFinder(th, [finders[th] EXCEPT
                        !.pc = "done",
                        !.template = global_image_processor.templates[finders[th].name]])
    /\ UNCHANGED <<global_image_processor, waiter, clicker>>
    /\ UNCHANGED notImgVars

\* find_template returns.
FindReturn(th) ==
    /\ finders[th].pc = "done"
    /\ SetFinder(th, NoFinder)
    /\ UNCHANGED <<global_image_processor, waiter, clicker>>
    /\ UNCHANGED notImgVars

\* find_template(screenshot, template_name) run from its call to its last
\* statement by the only thread using the ImageProcessor.
FindTemplate(th, frame, name, fits, combos) ==
    /\ \A ot \in FinderIds : finders[ot].pc = "idle"
    /\ LET ip == global_image_processor
           obj == IF ip.templates[name] = 0 THEN ip.loads[name] + 1
                  ELSE ip.templates[name]
       IN /\ global_image_processor' =
               [ip EXCEPT !.current_resolution = frame,
                          !.scale_factor = IF ip.current_resolution # frame
                                           THEN ScaleFor(frame) ELSE @,
                          !.templates[name] = obj,
                          !.loads[name] = IF ip.templates[name] = 0
                                          THEN @ + 1 ELSE @]
          /\ SetFinder(th, [NoFinder EXCEPT
                              !.pc = "done", !.frame = frame, !.name = name,
                              !.scale = IF ip.current_resolution # frame
                                        THEN ScaleFor(frame)
                                        ELSE ip.scale_factor,
                              !.template = obj, !.fits = fits,
                              !.combos = combos,
                              !.result = find_template_result(name, fits, combos)])
    /\ UNCHANGED <<waiter, clicker>>
    /\ UNCHANGED notImgVars

\* One attempt of wait_for_template (lines 486-488) made for a step of the
\* script that calls click_on_image or wait_for_image with a name only, as
\* steps 1 and 7 do: find_template receives the engine's threshold.
StepFindTemplate(th, step, frame, name, fits, combos) ==
    /\ \A ot \in FinderIds : finders[ot].pc = "idle"
    /\ LET ip == global_image_processor
           obj == IF ip.templates[name] = 0 THEN ip.loads[name] + 1
                  ELSE ip.templates[name]
       IN /\ global_image_processor' =
               [ip EXCEPT !.current_resolution = frame,
                          !.scale_factor = IF ip.current_resolution # frame
                                           THEN ScaleFor(frame) ELSE @,
                          !.templates[name] = obj,
                          !.loads[name] = IF ip.templates[name] = 0
                                          THEN @ + 1 ELSE @]
          /\ SetFinder(th, [NoFinder EXCEPT
                              !.pc = "done", !.frame = frame, !.name = name,
                              !.scale = IF ip.current_resolution # frame
                                        THEN ScaleFor(frame)
                                        ELSE ip.scale_factor,
                              !.template = obj, !.fits = fits,
                              !.combos = combos, !.step = step,
                              !.result = find_template_with(EngineThreshold, name,
                                                            fits, combos)])
    /\ UNCHANGED <<waiter, clicker>>
    /\ UNCHANGED notImgVars

\* ---- find_all_templates, lines 326-438
MaxCandidates == 3
MaxResults == 2
MaxCoordinate == 2
TemplateSizes == {4, 5}

\* One location of np.where(result >= threshold), lines 403-407: position,
\* scaled template size and score (at least the threshold).
Candidates(size) ==
    [x : 0..MaxCoordinate, y : 0..1, w : {size}, h : {size}, score : {80, 90}]

\* line 414: list.sort by score, reverse=True; the sort is stable, so equal
\* scores keep the order of the list.
RECURSIVE SortByScore(_)
SortByScore(ms) ==
    IF ms = <<>> THEN <<>>
    ELSE LET rest == SortByScore(SubSeq(ms, 1, Len(ms) - 1))
             m == ms[Len(ms)]
             before == SelectSeq(rest, LAMBDA r : r.score >= m.score)
             after == SelectSeq(rest, LAMBDA r : r.score < m.score)
         IN before \o <<m>> \o after

\* line 426: the test of one candidate against one accepted match.
is_duplicate(m, filtered) ==
    /\ Abs(m.x - filtered.x) < m.w \div 2
    /\ Abs(m.y - filtered.y) < m.h \div 2

\* lines 417-435: the loop over the sorted candidates from the k-th on, with
\* the matches accepted so far.
RECURSIVE FilterMatches(_, _, _, _)
FilterMatches(sorted, k, filtered, max_results) ==
    IF k > Len(sorted) THEN filtered
    ELSE IF \E j \in 1..Len(filtered) : is_duplicate(sorted[k], filtered[j])
    THEN FilterMatches(sorted, k + 1, filtered, max_results)
    ELSE LET accepted == Append(filtered, sorted[k]) IN
         IF Len(accepted) >= max_results THEN accepted
         ELSE FilterMatches(sorted, k + 1, accepted, max_results)

\* find_all_templates from the candidates on, lines 414-438.  The returned
\* tuples are (x, y, w, h); the score is kept here to compare the order.
find_all_result(candidates, max_results) ==
    FilterMatches(SortByScore(candidates), 1, <<>>, max_results)

\* find_all_templates run from its call to its return by the only thread
\* using the ImageProcessor; lines 352-375 are those of find_template.
FindAllTemplates(th, frame, name, candidates, max_results) ==
    /\ \A ot \in FinderIds : finders[ot].pc = "idle"
    /\ LET ip == global_image_processor
           obj == IF ip.templates[name] = 0 THEN ip.loads[name] + 1
                  ELSE ip.templates[name]
       IN /\ global_image_processor' =
               [ip EXCEPT !.current_resolution = frame,
                          !.scale_factor = IF ip.current_resolution # frame
                                           THEN ScaleFor(frame) ELSE @,
                          !.templates[name] = obj,
                          !.loads[name] = IF ip.templates[name] = 0
                                          THEN @ + 1 ELSE @]
          /\ SetFinder(th, [NoFinder EXCEPT
                              !.pc = "done", !.frame = frame, !.name = name,
                              !.scale = IF ip.current_resolution # frame
                                        THEN ScaleFor(frame)
                                        ELSE ip.scale_factor,
                              !.template = obj,
                              !.candidates = candidates,
                              !.max_results = max_results,
                              !.matches = find_all_result(candidates, max_results)])
    /\ UNCHANGED <<waiter, clicker>>
    /\ UNCHANGED notImgVars

\* ---- wait_for_template, lines 453-503
\* line 484: the loop condition.
WaitGoesOn(w) == w.elapsed < w.timeout /\ w.attempts < DefaultMaxAttempts

\* wait_for_template(adb, name, timeout, interval) is called: lines 481-482.
WaitCall(timeout, interval) ==
    /\ waiter.pc = "idle"
    /\ waiter' = [NoWaiter EXCEPT !.pc = "head", !.timeout = timeout,
                                  !.interval = interval]
    /\ UNCHANGED <<global_image_processor, finders, clicker>>
    /\ UNCHANGED notImgVars

\* WaitAttempt with the wait ended by an attempt that raises.
WaitAttemptAbortOnError(outcome, took) ==
    /\ waiter.pc = "head"
    /\ WaitGoesOn(waiter)
    /\ waiter' =
         IF outcome = "found"
         THEN [waiter EXCEPT !.pc = "returned", !.last = outcome,
                             !.elapsed = @ + took, !.result = "center"]
         ELSE IF outcome = "error"
         THEN [waiter EXCEPT !.pc = "returned", !.last = outcome,
                             !.raised = TRUE, !.attempts = @ + 1,
                             !.elapsed = @ + took, !.result = "None"]
         ELSE [waiter EXCEPT !.last = outcome, !.attempts = @ + 1,
                             !.elapsed = @ + took + waiter.interval]
    /\ UNCHANGED <<global_image_processor, finders, clicker>>
    /\ UNCHANGED notImgVars

\* lines 484-500: one pass of the loop.  The capture and the search take
\* `took` units; they find the template, do not find it, or raise.  A found
\* template is returned as its center; otherwise the attempt is counted and
\* the thread sleeps for the interval.
WaitAttempt(outcome, took) ==
    /\ waiter.pc = "head"
    /\ WaitGoesOn(waiter)
    /\ waiter' =
         IF outcome = "found"
         THEN [waiter EXCEPT !.pc = "returned", !.last = outcome,
                             !.elapsed = @ + took, !.result = "center"]
         ELSE [waiter EXCEPT !.last = outcome,
                             !.raised = @ \/ outcome = "error",
                             !.attempts = @ + 1,
                             !.elapsed = @ + took + waiter.interval]
    /\ UNCHANGED <<global_image_processor, finders, clicker>>
    /\ UNCHANGED notImgVars

\* lines 484 and 502-503: the loop condition fails and None is returned.
WaitGiveUp ==
    /\ waiter.pc = "head"
    /\ ~WaitGoesOn(waiter)
    /\ waiter' = [waiter EXCEPT !.pc = "returned", !.result = "None"]
    /\ UNCHANGED <<global_image_processor, finders, clicker>>
    /\ UNCHANGED notImgVars

\* The caller has the result.
WaitReturn ==
    /\ waiter.pc = "returned"
    /\ waiter' = NoWaiter
    /\ UNCHANGED <<global_image_processor, finders, clicker>>
    /\ UNCHANGED notImgVars

WaitNext ==
    \/ \E timeout \in WaitTimeouts, interval \in WaitIntervals :
          WaitCall(timeout, interval)
    \/ \E outcome \in {"found", "not_found", "error"}, took \in 0..MaxCapture :
          WaitAttempt(outcome, took)
    \/ WaitGiveUp
    \/ WaitReturn

\* ---- _click_until_image_found, tutorial_steps.py lines 1023-1067
\* The engine's thread calls the action of the step it is at: step 51
\* (max_clicks None) at index 0 of the script used here, step 52
\* (max_clicks 7) at index 1.
ClickCall(e) ==
    /\ engines[e].exists
    /\ engines[e].pc = "acting"
    /\ clicker.pc = "idle"
    /\ clicker' = [NoClicker EXCEPT
                     !.pc = "loop",
                     !.max_clicks = IF engines[e].i = 0 THEN NoMaxClicks
                                    ELSE Step52MaxClicks]
    /\ UNCHANGED <<global_image_processor, finders, waiter>>
    /\ UNCHANGED notImgVars

\* lines 1040-1067: one pass of `while True`.  The frame holds the image (it
\* is tapped and True is returned) or not: False is returned when max_clicks
\* is given and reached, otherwise the location is tapped, the click is
\* counted and the thread sleeps.  The counter stops at MaxClickCount here.
ClickPass(found) ==
    /\ clicker.pc = "loop"
    /\ clicker' =
         IF found
         THEN [clicker EXCEPT !.pc = "returned", !.result = "True"]
         ELSE IF clicker.max_clicks # NoMaxClicks
                 /\ clicker.click_count >= clicker.max_clicks
         THEN [clicker EXCEPT !.pc = "returned", !.result = "False"]
         ELSE [clicker EXCEPT
                 !.click_count = IF @ < MaxClickCount THEN @ + 1 ELSE @]
    /\ UNCHANGED <<global_image_processor, finders, waiter>>
    /\ UNCHANGED notImgVars

\* The composite returns its value to the engine's loop (tutorial_engine.py
\* lines 150-158).
ClickReturn(e) ==
    /\ engines[e].exists
    /\ engines[e].pc = "acting"
    /\ clicker.pc = "returned"
    /\ SetEngine(e, ThreadStep(engines[e], IF clicker.result = "True"
                                           THEN "truthy" ELSE "falsy"))
    /\ clicker' = NoClicker
    /\ UNCHANGED now
    /\ UNCHANGED <<adb_controllers, image_processors, tutorial_engines,
                   current_tasks, task_queue, futures, executor, stop_flag,
                   max_workers, tasks, dispatchers, work_queues, lock, calls,
                   global_image_processor, finders, waiter, emulator_manager>>

\* The executor is constructed; a reference image may have been added to the
\* assets directory after that.
ImageInit ==
    /\ now = 0
    /\ engines = [e \in EngineIds |-> NoEngine]
    /\ max_workers = 1
    /\ ExecutorObjectInit
    /\ global_image_processor \in
          {NewImageProcessor(TemplateNames),
           NewImageProcessor(TemplateNames \ {"late_image"})}
    /\ finders = [th \in FinderIds |-> NoFinder]
    /\ waiter = NoWaiter
    /\ clicker = NoClicker

ImageNext ==
    \/ \E th \in FinderIds, frame \in FrameResolutions, name \in TemplateNames :
          FindCall(th, frame, name)
    \/ \E th \in FinderIds : FindDetect(th)
    \/ \E th \in FinderIds : FindSetScale(th)
    \/ \E th \in FinderIds : FindReadScale(th)
    \/ \E th \in FinderIds : FindLookup(th)
    \/ \E th \in FinderIds : FindLoad(th)
    \/ \E th \in FinderIds : FindUse(th)
    \/ \E th \in FinderIds : FindReturn(th)

\* Two workers' threads calling find_template on the shared ImageProcessor.
ImageSpec == ImageInit /\ [][ImageNext]_vars

MatchNext ==
    \/ \E frame \in FrameResolutions, name \in TemplateNames, fits \in BOOLEAN :
          \E combos \in [1..NumCombos -> ComboOutcomes] :
              FindTemplate(1, frame, name, fits, combos)
    \/ FindReturn(1)

StepMatchNext ==
    \/ /\ finders[1].pc = "idle"
       /\ \E step \in EngineImageSteps, frame \in {<<1920, 1080>>},
             name \in TemplateNames, fits \in BOOLEAN :
             \E combos \in [1..NumCombos -> ComboOutcomes] :
                 StepFindTemplate(1, step, frame, name, fits, combos)
    \/ FindReturn(1)

\* One engine thread looking for the image of a step again and again.
StepMatchSpec == ImageInit /\ [][StepMatchNext]_vars

\* An engine whose script is steps 51 and 52, with its caller.
ClickInit ==
    /\ now = 0
    /\ ExecutorInit
    /\ max_workers = 1
    /\ \E steps \in [1..2 -> 1..MaxRetry] :
         engines = [e \in EngineIds |->
                      IF e = 1 THEN NewEngine("A", steps, 1, FALSE, FALSE)
                      ELSE NoEngine]

ClickNext ==
    \/ EngineStart(1)
    \/ EngineStop(1)
    \/ EngineThread(1)
    \/ ClickCall(1)
    \/ \E found \in BOOLEAN : ClickPass(found)
    \/ ClickReturn(1)

\* The engine's thread keeps running, inside and outside the composite; the
\* image need not ever appear.  Passes beyond MaxClickCount clicks leave the
\* state as it is: a loop that goes on forever stays in that state.
ClickSpec ==
    /\ ClickInit
    /\ [][ClickNext]_vars
    /\ WF_vars(EngineThread(1))
    /\ WF_vars(ClickCall(1))
    /\ WF_vars(ClickPass(FALSE))
    /\ WF_vars(ClickReturn(1))

\* One thread calling wait_for_template again and again.
WaitSpec == ImageInit /\ [][WaitNext]_vars

FindAllNext ==
    \/ /\ finders[1].pc = "idle"
       /\ \E frame \in {<<1920, 1080>>}, name \in {"skip", "late_image"},
             size \in TemplateSizes, n \in 0..MaxCandidates,
             max_results \in 0..MaxResults :
             \E candidates \in [1..n -> Candidates(size)] :
                 FindAllTemplates(1, frame, name, candidates, max_results)
    \/ FindReturn(1)

\* One thread calling find_all_templates again and again.
FindAllSpec == ImageInit /\ [][FindAllNext]_vars

\* One thread calling find_template again and again.
MatchSpec == ImageInit /\ [][MatchNext]_vars

\* --------------------------------------- exceptions inside the pool's workers
FaultNext ==
    \/ \E d \in Devices, sr \in ServerRanges : StartTutorial(d, sr)
    \/ FirstStart
    \/ \E p \in PoolIds : DispatcherGet(p)
    \/ \E p \in PoolIds : DispatcherSubmit(p)
    \/ \E p \in PoolIds : DispatcherAddCallback(p)
    \/ \E p \in PoolIds : WorkerTake(p)
    \/ \E t \in TaskIds : WorkerDeviceReady(t)
    \/ \E t \in TaskIds : WorkerRaise(t)
    \/ \E t \in TaskIds : WorkerPollExit(t)
    \/ \E e \in EngineIds : EngineThread(e)
    \/ \E e \in EngineIds : EngineAction(e, "truthy")
    \/ ExecTick

FaultSpec ==
    /\ Init
    /\ [][FaultNext]_vars
    /\ WF_vars(\E p \in PoolIds : DispatcherGet(p))
    /\ WF_vars(\E p \in PoolIds : DispatcherSubmit(p))
    /\ WF_vars(\E p \in PoolIds : DispatcherAddCallback(p))
    /\ WF_vars(\E p \in PoolIds : WorkerTake(p))
    /\ WF_vars(\E t \in TaskIds : WorkerDeviceReady(t))
    /\ WF_vars(\E t \in TaskIds : WorkerPollExit(t))
    /\ WF_vars(\E e \in EngineIds : EngineThread(e))
    /\ WF_vars(\E e \in EngineIds : EngineAction(e, "truthy"))

\* ------------------------------------------ the executor stopped and restarted
\* One worker, every device reachable, every action returning: the caller
\* submits runs and calls start() and stop() up to MaxStarts times each.
RestartInit ==
    /\ now = 0
    /\ engines = [e \in EngineIds |-> NoEngine]
    /\ ExecutorInit
    /\ max_workers = 1

RestartNext ==
    \/ \E d \in Devices, sr \in ServerRanges : StartTutorial(d, sr)
    \/ Start
    \/ Stop
    \/ \E p \in PoolIds : DispatcherGet(p)
    \/ \E p \in PoolIds : DispatcherTimeout(p)
    \/ \E p \in PoolIds : DispatcherSubmit(p)
    \/ \E p \in PoolIds : DispatcherAddCallback(p)
    \/ \E p \in PoolIds : WorkerTake(p)
    \/ \E t \in TaskIds : WorkerDeviceReady(t)
    \/ \E t \in TaskIds : WorkerPollExit(t)
    \/ \E e \in EngineIds : EngineThread(e)
    \/ \E e \in EngineIds : EngineAction(e, "truthy")

RestartSpec == RestartInit /\ [][RestartNext]_vars

\* ------------------------------------------------- the engine on its own
\* One engine constructed directly by a caller (as BotWorker.run does), with
\* any script of at most MaxSteps steps and retry counts 1..MaxRetry.
Scripts == UNION {[1..n -> 1..MaxRetry] : n \in 0..MaxSteps}

EngineInit ==
    /\ now = 0
    /\ ExecutorInit
    /\ max_workers = 1
    /\ \E steps \in Scripts, cb \in BOOLEAN :
         engines = [e \in EngineIds |->
                      IF e = 1 THEN NewEngine("A", steps, 1, cb, TRUE) ELSE NoEngine]

EngineNext ==
    \/ EngineThread(1)
    \/ \E o \in Outcomes : EngineAction(1, o)
    \/ EngineStart(1)
    \/ EngineStop(1)
    \/ \E id \in ExplicitCheckpointIds : EngineSaveCheckpoint(1, id)
    \/ \E id \in ExplicitCheckpointIds \cup {NoCheckpoint} : EngineRestoreCheckpoint(1, id)
    \/ Tick

EngineSpec == EngineInit /\ [][EngineNext]_vars

\* ------------------------------------ the engine and its caller's calls
\* The calls a caller makes on one engine, with what each call returned
\* recorded: rejected (the last start() found a run in progress), restored
\* (the result of the last restore_checkpoint) and rt (the step index, the
\* server_range and the run count at the last save_checkpoint(id) that was
\* followed at once by restore_checkpoint(id)).
RangeChoices == {1, 2}
UnknownCheckpoint == <<"unknown">>
RestoreIds == ExplicitCheckpointIds \cup {NoCheckpoint, UnknownCheckpoint}
CallScripts == {[k \in 1..n |-> 1] : n \in 0..MaxSteps}

\* A caller invokes start() and sees whether a run was in progress.
EngineStartCall(e) ==
    /\ engines[e].exists
    /\ engines[e].runs < MaxRuns
    /\ SetEngine(e, [StartEngine(engines[e]) EXCEPT
                       !.rejected = ThreadAlive(engines[e])])
    /\ UNCHANGED now
    /\ UNCHANGED execVars

\* A caller invokes restore_checkpoint and keeps its result.
EngineRestoreCall(e, id) ==
    /\ engines[e].exists
    /\ SetEngine(e, [restore_checkpoint(engines[e], id) EXCEPT
                       !.restored = IF restore_result(engines[e], id)
                                    THEN "ok" ELSE "failed",
                       !.rt = <<>>])
    /\ UNCHANGED now
    /\ UNCHANGED execVars

\* A caller invokes save_checkpoint(id) and at once restore_checkpoint(id),
\* while a step is current (save_checkpoint saves nothing otherwise).
EngineSaveRestore(e, id) ==
    /\ engines[e].exists
    /\ engines[e].current_step # NoStep
    /\ SetEngine(e, [restore_checkpoint(save_checkpoint(engines[e], id), id) EXCEPT
                       !.restored = "none",
                       !.rt = <<engines[e].current_step, engines[e].server_range,
                                engines[e].runs>>])
    /\ UNCHANGED now
    /\ UNCHANGED execVars

\* TutorialEngine.set_server_range
EngineSetServerRange(e, r) ==
    /\ engines[e].exists
    /\ engines[e].server_range # r
    /\ SetEngine(e, [engines[e] EXCEPT !.server_range = r, !.rt = <<>>])
    /\ UNCHANGED now
    /\ UNCHANGED execVars

\* The caller assigns another script to an engine that is not running.
EngineSetSteps(e, steps) ==
    /\ engines[e].exists
    /\ ~ThreadAlive(engines[e])
    /\ engines[e].steps # steps
    /\ SetEngine(e, [engines[e] EXCEPT !.steps = steps, !.rt = <<>>])
    /\ UNCHANGED now
    /\ UNCHANGED execVars

CallInit ==
    /\ now = 0
    /\ ExecutorInit
    /\ max_workers = 1
    /\ \E steps \in CallScripts :
         engines = [e \in EngineIds |->
                      IF e = 1 THEN NewEngine("A", steps, 1, FALSE, FALSE)
                      ELSE NoEngine]

CallNext ==
    \/ EngineThread(1)
    \/ \E o \in {"truthy", "raise"} : EngineAction(1, o)
    \/ EngineStartCall(1)
    \/ EngineStop(1)
    \/ \E id \in ExplicitCheckpointIds : EngineSaveCheckpoint(1, id)
    \/ \E id \in RestoreIds : EngineRestoreCall(1, id)
    \/ \E id \in ExplicitCheckpointIds : EngineSaveRestore(1, id)
    \/ \E r \in RangeChoices : EngineSetServerRange(1, r)
    \/ \E steps \in CallScripts : EngineSetSteps(1, steps)
    \/ Tick

CallSpec == CallInit /\ [][CallNext]_vars

\* ------------------------------------------------------ EmulatorManager
\* emulator_manager.py.  list_emulators (165-195), stop_emulator (335-387)
\* and restart_emulator (389-416) run their whole body inside
\* `with self._lock`; start_emulator (286-333) takes no lock itself.
\* _lock is a threading.Lock (lines 7 and 27): acquiring it blocks while any
\* thread holds it, the holder included.
StopAttempts == 15
ManagerMethods == {"list_emulators", "stop_emulator", "restart_emulator",
                   "start_emulator"}
EmulatorStatus == {"running", "stopped", "absent"}

Frame(fn, pc) == [fn |-> fn, pc |-> pc, n |-> 0]
Top(stack) == stack[Len(stack)]
Pop(stack) == SubSeq(stack, 1, Len(stack) - 1)
SetTop(stack, f) == [stack EXCEPT ![Len(stack)] = f]

\* The call of list_emulators: a frame waiting at its `with self._lock`.
CallList(stack) == Append(stack, Frame("list_emulators", "acquire"))

\* The value `value` is returned to the innermost frame of `stack`, which
\* goes on from its call: what the stack is then, and what the outermost
\* call returned if it has returned ("none" otherwise).  started tells
\* whether the launched emulator came up within the wait of lines 313-330.
RECURSIVE Deliver(_, _, _)
Deliver(stack, value, started) ==
    IF stack = <<>>
    THEN [stack |-> <<>>, ret |-> value]
    ELSE LET f == Top(stack) IN
         CASE f.fn = "stop_emulator" /\ f.pc = "check" ->
                \* lines 349-365
                IF value = "stopped" THEN Deliver(Pop(stack), "True", started)
                ELSE IF value = "absent" THEN Deliver(Pop(stack), "False", started)
                ELSE [stack |-> CallList(SetTop(stack, [f EXCEPT !.pc = "wait"])),
                      ret |-> "none"]
           [] f.fn = "stop_emulator" /\ f.pc = "wait" ->
                \* lines 369-387
                IF value = "stopped" THEN Deliver(Pop(stack), "True", started)
                ELSE IF f.n + 1 >= StopAttempts
                     THEN Deliver(Pop(stack), "False", started)
                     ELSE [stack |-> CallList(SetTop(stack, [f EXCEPT !.n = @ + 1])),
                           ret |-> "none"]
           [] f.fn = "restart_emulator" /\ f.pc = "stopping" ->
                \* lines 403-411
                IF value = "False" THEN Deliver(Pop(stack), "False", started)
                ELSE [stack |-> CallList(Append(SetTop(stack, [f EXCEPT !.pc = "starting"]),
                                                Frame("start_emulator", "listing"))),
                      ret |-> "none"]
           [] f.fn = "restart_emulator" /\ f.pc = "starting" ->
                \* lines 411-416
                Deliver(Pop(stack), value, started)
           [] f.fn = "start_emulator" /\ f.pc = "listing" ->
                \* lines 298-333
                IF value = "running" \/ started
                THEN Deliver(Pop(stack), "True", started)
                ELSE Deliver(Pop(stack), "False", started)
           [] OTHER -> [stack |-> stack, ret |-> "none"]

SetManagerThread(th, stack, ret, holder) ==
    emulator_manager' =
        [emulator_manager EXCEPT !.lock = holder,
                                 !.threads[th] = [stack |-> stack, ret |-> ret]]

\* A thread outside the manager calls one of its methods.
ManagerCall(th, fn) ==
    /\ emulator_manager.threads[th].stack = <<>>
    /\ SetManagerThread(th,
                        IF fn = "start_emulator"
                        THEN CallList(<<Frame(fn, "listing")>>)
                        ELSE <<Frame(fn, "acquire")>>,
                        "none", emulator_manager.lock)
    /\ UNCHANGED <<engines, now>>
    /\ UNCHANGED <<adb_controllers, image_processors, tutorial_engines,
                   current_tasks, task_queue, futures, executor, stop_flag,
                   max_workers, tasks, dispatchers, work_queues, lock, calls,
                   imgVars>>

\* `with self._lock`: the thread gets the lock when nobody holds it.
ManagerAcquire(th) ==
    LET stack == emulator_manager.threads[th].stack IN
    /\ stack # <<>>
    /\ Top(stack).pc = "acquire"
    /\ emulator_manager.lock = 0
    /\ SetManagerThread(th, SetTop(stack, [Top(stack) EXCEPT !.pc = "locked"]),
                        "none", th)
    /\ UNCHANGED <<engines, now>>
    /\ UNCHANGED <<adb_controllers, image_processors, tutorial_engines,
                   current_tasks, task_queue, futures, executor, stop_flag,
                   max_workers, tasks, dispatchers, work_queues, lock, calls,
                   imgVars>>

\* Inside its lock, stop_emulator calls list_emulators (line 349) and
\* restart_emulator calls stop_emulator (line 403).
ManagerNestedCall(th) ==
    LET stack == emulator_manager.threads[th].stack IN
    /\ stack # <<>>
    /\ Top(stack).pc = "locked"
    /\ Top(stack).fn \in {"stop_emulator", "restart_emulator"}
    /\ SetManagerThread(th,
                        IF Top(stack).fn = "stop_emulator"
                        THEN CallList(SetTop(stack, [Top(stack) EXCEPT !.pc = "check"]))
                        ELSE Append(SetTop(stack, [Top(stack) EXCEPT !.pc = "stopping"]),
                                    Frame("stop_emulator", "acquire")),
                        "none", emulator_manager.lock)
    /\ UNCHANGED <<engines, now>>
    /\ UNCHANGED <<adb_controllers, image_processors, tutorial_engines,
                   current_tasks, task_queue, futures, executor, stop_flag,
                   max_workers, tasks, dispatchers, work_queues, lock, calls,
                   imgVars>>

\* list_emulators, holding the lock, has asked ldconsole (lines 170-192); it
\* leaves the `with` block, which releases the lock, and returns the status
\* of the emulator its caller asks about.
ManagerListReturn(th, status, started) ==
    LET stack == emulator_manager.threads[th].stack IN
    /\ stack # <<>>
    /\ Top(stack).pc = "locked"
    /\ Top(stack).fn = "list_emulators"
    /\ LET d == Deliver(Pop(stack), status, started)
       IN SetManagerThread(th, d.stack, d.ret, 0)
    /\ UNCHANGED <<engines, now>>
    /\ UNCHANGED <<adb_controllers, image_processors, tutorial_engines,
                   current_tasks, task_queue, futures, executor, stop_flag,
                   max_workers, tasks, dispatchers, work_queues, lock, calls,
                   imgVars>>

ManagerInit ==
    /\ now = 0
    /\ engines = [e \in EngineIds |-> NoEngine]
    /\ max_workers = 1
    /\ ExecutorInit

ManagerNext ==
    \/ \E th \in ManagerThreads, fn \in ManagerMethods : ManagerCall(th, fn)
    \/ \E th \in ManagerThreads : ManagerAcquire(th)
    \/ \E th \in ManagerThreads : ManagerNestedCall(th)
    \/ \E th \in ManagerThreads, status \in EmulatorStatus, started \in BOOLEAN :
          ManagerListReturn(th, status, started)

\* Two threads calling the manager's methods, with a scheduler that lets
\* every thread run and a lock that a waiting thread gets when it is free
\* again and again.
ManagerSpec ==
    /\ ManagerInit
    /\ [][ManagerNext]_vars
    /\ \A th \in ManagerThreads :
          /\ SF_vars(ManagerAcquire(th))
          /\ WF_vars(ManagerNestedCall(th))
          /\ WF_vars(\E status \in EmulatorStatus, started \in BOOLEAN :
                        ManagerListReturn(th, status, started))

\* The length of the scripts that reach index 5.
LongScriptLen == 6

\* ------------------------------------ the season and the server steps
\* Script indices of step5 (find_season_and_click) and step6
\* (find_server_and_click), tutorial_steps.py lines 58-74.
ServerSteps == {4, 5}

\* The execution thread takes a step; when that step calls the action of the
\* season step or of the server step (tutorial_engine.py line 152:
\* step.action(*step.args)), what the action receives is recorded next to the
\* engine's server_range of that moment.
EngineThreadCall(e) ==
    /\ engines[e].exists
    /\ ThreadAlive(engines[e])
    /\ engines[e].pc # "acting"
    /\ LET g == engines[e]
           h == ThreadStep(g, "truthy")
       IN SetEngine(e, IF h.pc = "acting" /\ g.i \in ServerSteps
                       THEN [h EXCEPT !.called_with = <<g.step_args, g.server_range>>]
                       ELSE h)
    /\ UNCHANGED now
    /\ UNCHANGED execVars

\* An engine built for one of two server ranges, with the first six steps of
\* the script, and a caller that may set another range or restore a
\* checkpoint before or during the run.
ServerInit ==
    /\ now = 0
    /\ ExecutorInit
    /\ max_workers = 1
    /\ \E r \in RangeChoices :
         engines = [e \in EngineIds |->
                      IF e = 1
                      THEN NewEngine("A", [k \in 1..LongScriptLen |-> 1], r, FALSE, FALSE)
                      ELSE NoEngine]

ServerNext ==
    \/ EngineThreadCall(1)
    \/ \E o \in {"truthy", "raise"} : EngineAction(1, o)
    \/ EngineStart(1)
    \/ EngineStop(1)
    \/ \E r \in RangeChoices : EngineSetServerRange(1, r)
    \/ EngineRestoreCheckpoint(1, NoCheckpoint)

ServerSpec == ServerInit /\ [][ServerNext]_vars

\* ---- find_season_and_click, tutorial_engine.py lines 318-385
MaxServer == 601

\* lines 331-349: the season of a server number ("none": the else branch).
SeasonOf(target_server) ==
    IF 577 <= target_server /\ target_server <= 600 THEN "S1"
    ELSE IF 541 <= target_server /\ target_server <= 576 THEN "S2"
    ELSE IF 505 <= target_server /\ target_server <= 540 THEN "S3"
    ELSE IF 481 <= target_server /\ target_server <= 504 THEN "S4"
    ELSE IF 433 <= target_server /\ target_server <= 480 THEN "S5"
    ELSE IF 409 <= target_server /\ target_server <= 432 THEN "X1"
    ELSE IF 266 <= target_server /\ target_server <= 407 THEN "X2"
    ELSE IF 1 <= target_server /\ target_server <= 264 THEN "X3"
    ELSE "none"

\* lines 367-376.
season_coords ==
    [season \in {"S1", "S2", "S3", "S4", "S5", "X1", "X2", "X3"} |->
        CASE season = "S1" -> <<400, 150>>
          [] season = "S2" -> <<400, 200>>
          [] season = "S3" -> <<400, 250>>
          [] season = "S4" -> <<400, 300>>
          [] season = "S5" -> <<400, 350>>
          [] season = "X1" -> <<400, 400>>
          [] season = "X2" -> <<400, 250>>
          [] season = "X3" -> <<400, 300>>]

\* find_season_and_click(target_server): the season, whether the list was
\* scrolled (lines 354-360), the position tapped (<<>>: no tap) and the
\* value returned.
find_season_and_click(target_server) ==
    LET season == SeasonOf(target_server) IN
    IF season = "none"
    THEN [season |-> "none", scrolled |-> FALSE, tap |-> <<>>, ok |-> FALSE]
    ELSE [season |-> season, scrolled |-> season \in {"X2", "X3"},
          tap |-> season_coords[season], ok |-> TRUE]

\* The engine's thread, or a caller, calls find_season_and_click.
FindSeasonAndClick(e, target_server) ==
    /\ engines[e].exists
    /\ SetEngine(e, [engines[e] EXCEPT
                       !.season_call = <<target_server,
                                         find_season_and_click(target_server)>>])
    /\ UNCHANGED now
    /\ UNCHANGED execVars

SeasonNext == \E target_server \in 0..MaxServer : FindSeasonAndClick(1, target_server)

SeasonSpec == ServerInit /\ [][SeasonNext]_vars

\* One engine with a script long enough to reach the second index that is a
\* multiple of CheckpointEvery; every step has retry_count 1.
CheckpointInit ==
    /\ now = 0
    /\ ExecutorInit
    /\ max_workers = 1
    /\ engines = [e \in EngineIds |->
                    IF e = 1
                    THEN NewEngine("A", [k \in 1..LongScriptLen |-> 1], 1, FALSE, TRUE)
                    ELSE NoEngine]

CheckpointNext ==
    \/ EngineThread(1)
    \/ \E o \in Outcomes : EngineAction(1, o)
    \/ EngineStart(1)
    \/ EngineStop(1)
    \/ EngineRestoreCheckpoint(1, NoCheckpoint)
    \/ \E r \in RangeChoices : EngineSetServerRange(1, r)
    \/ Tick

CheckpointSpec == CheckpointInit /\ [][CheckpointNext]_vars

\* The engine on its own with a scheduler that keeps the execution thread
\* running and with step actions that terminate.
EngineLiveSpec ==
    /\ EngineInit
    /\ [][EngineNext]_vars
    /\ WF_vars(EngineThread(1))
    /\ WF_vars(\E o \in Outcomes : EngineAction(1, o))

\* ================================================================ claims
\* The engine under study in EngineSpec and EngineLiveSpec.
E1 == engines[1]

StepKeys(g) == DOMAIN g.attempts

\* The run of g has left step k's attempt loop for good.
LeftStep(g, k) ==
    \/ g.pc \in {"finish", "clear", "dead"}
    \/ g.pc = "top" /\ g.i + 1 > k
    \/ g.pc \in {"attempt", "acting", "report"} /\ g.i + 1 > k

\* ---------------------------------------------------------------------
\* C3: with no cancellation requested, a step whose action raises on every
\* attempt is attempted exactly retry_count times, then reported once with
\* success false, and no later step of the script is attempted.
C3_RetryBound ==
    \A k \in StepKeys(E1) :
        /\ E1.attempts[k] <= E1.steps[k]
        /\ (/\ ~E1.stop_event
            /\ E1.attempts[k] > 0
            /\ E1.returned[k] = "none"
            /\ LeftStep(E1, k))
           => /\ E1.attempts[k] = E1.steps[k]
              /\ E1.reports[k] = <<FALSE>>
              /\ \A j \in StepKeys(E1) :
                    j > k => E1.attempts[j] = 0 /\ E1.reports[j] = <<>>

\* A two-attempt step has raised twice and been reported failed, with a later
\* step left unattempted.
C3_Witness ==
    /\ Len(E1.steps) = 2
    /\ E1.steps[1] = 2
    /\ ~E1.stop_event
    /\ E1.pc = "dead"
    /\ E1.attempts = <<2, 0>>
    /\ E1.returned[1] = "none"
    /\ E1.reports = <<(<<FALSE>>), (<<>>)>>

\* ---------------------------------------------------------------------
\* C4: an attempt that returns a falsy value counts as a failed attempt: a
\* step none of whose attempts returned a truthy value is never reported with
\* success true, and no step after it is attempted.
C4_FalsyIsFailure ==
    \A k \in StepKeys(E1) :
        E1.returned[k] = "falsy"
        => /\ \A n \in 1..Len(E1.reports[k]) : ~E1.reports[k][n]
           /\ \A j \in StepKeys(E1) : j > k => E1.attempts[j] = 0

\* ---------------------------------------------------------------------
\* C5: the outcome passed to on_tutorial_complete is true only if no
\* cancellation was requested and every step from the resume index through
\* the final step was reported with success true.
C5_TrueOnlyIfAllSucceeded ==
    (E1.completes # <<>> /\ E1.completes[1])
    => /\ ~E1.cancel_seen
       /\ \A k \in StepKeys(E1) :
            k > E1.start_index => E1.reports[k] = <<TRUE>>

\* ---------------------------------------------------------------------
\* C7: every run started by start() invokes on_tutorial_complete exactly
\* once, however the run ends, and current_step is None once the thread has
\* ended: no invocation before the loop is left, one after it.
C7_CompleteOnce ==
    /\ E1.pc \in {"begin", "top", "attempt", "acting", "report", "finish"}
       => E1.completes = <<>>
    /\ E1.pc = "clear" => Len(E1.completes) = 1
    /\ E1.pc = "dead" => Len(E1.completes) = 1 /\ E1.current_step = NoStep
    /\ Len(E1.all_completes) = IF ThreadAlive(E1) /\ E1.pc # "clear"
                               THEN E1.runs - 1 ELSE E1.runs

\* A second run has ended through the exception handler (no step was ever
\* current) and has reported false.
C7_Witness ==
    /\ E1.pc = "dead"
    /\ E1.runs = 2
    /\ E1.start_index = 0
    /\ \A k \in StepKeys(E1) : E1.attempts[k] = 0
    /\ ~E1.cancel_seen
    /\ E1.completes = <<FALSE>>

\* ---------------------------------------------------------------------
\* C10: after stop() on a running engine, and with every step attempt
\* terminating, the run eventually ends: the thread has exited and
\* on_tutorial_complete has been invoked.
C10_StopLeadsToEnd ==
    (E1.stop_event /\ ThreadAlive(E1))
    ~> (~ThreadAlive(E1) /\ Len(E1.completes) = 1)

\* stop() arrived while an attempt was in flight and the run has ended
\* reporting false.
C10_Witness ==
    /\ E1.pc = "dead"
    /\ E1.cancel_seen
    /\ E1.stop_event
    /\ \E k \in StepKeys(E1) : E1.attempts[k] > 0
    /\ E1.completes = <<FALSE>>

\* ---------------------------------------------------------------------
\* C1: at no time are two sequencer runs (engine execution threads) in
\* progress for the same device identifier.
C1_OneRunPerDevice ==
    \A e1, e2 \in EngineIds :
        (e1 # e2 /\ is_running(engines[e1]) /\ is_running(engines[e2]))
        => engines[e1].dev # engines[e2].dev

\* ---------------------------------------------------------------------
\* C2: while a task of a device is pending or running, no call of
\* start_tutorial for that device creates a task or replaces the device's
\* engine and current_tasks entry.
ActiveTask(d) ==
    \E t \in TaskIds : /\ tasks[t].exists
                       /\ tasks[t].emulator_id = d
                       /\ tasks[t].fstate \in {"pending", "running"}

C2_ActiveDeviceRejected ==
    [][\A d \in Devices :
         ActiveTask(d)
         => /\ \A t \in TaskIds :
                 (~tasks[t].exists /\ tasks'[t].exists)
                 => tasks'[t].emulator_id # d
            /\ \A e \in EngineIds :
                 (~engines[e].exists /\ engines'[e].exists)
                 => engines'[e].dev # d
            /\ Len(task_queue') <= Len(task_queue)
               \/ tasks'[task_queue'[Len(task_queue')]].emulator_id # d]_vars

\* ---------------------------------------------------------------------
\* C6: a task's future holds the result success only if the run of its
\* engine ended with outcome true.
C6_SuccessOnlyIfRunSucceeded ==
    \A t \in TaskIds :
        (tasks[t].fstate = "finished" /\ tasks[t].result)
        => \E n \in 1..Len(engines[tasks[t].eng].all_completes) :
              engines[tasks[t].eng].all_completes[n]

\* ---------------------------------------------------------------------
\* C8: every accepted task that has reached a terminal state has caused
\* exactly one on_tutorial_complete callback for its device: once no run and
\* no worker of a device is in progress, the callbacks made for the device
\* are as many as its terminal tasks.
RECURSIVE CallbacksUpTo(_, _)
CallbacksUpTo(d, e) ==
    IF e = 0 THEN 0
    ELSE CallbacksUpTo(d, e - 1)
         + (IF engines[e].exists /\ engines[e].dev = d
            THEN Len(engines[e].all_completes) ELSE 0)

Callbacks(d) == CallbacksUpTo(d, MaxEngines)

TerminalTasks(d) ==
    {t \in TaskIds : tasks[t].exists /\ tasks[t].emulator_id = d /\ FutureDone(t)}

DeviceQuiet(d) ==
    /\ \A e \in EngineIds : engines[e].dev = d => ~is_running(engines[e])
    /\ \A t \in TaskIds :
         tasks[t].emulator_id = d => tasks[t].wpc \notin {"wait", "poll"}

C8_OneCallbackPerTerminalTask ==
    \A d \in Devices :
        DeviceQuiet(d) => Callbacks(d) = Cardinality(TerminalTasks(d))

\* ---------------------------------------------------------------------
\* C9: between stop() and a later start() of the executor no step action of
\* any task begins executing.
C9_NoActionAfterStop ==
    [][stop_flag
       => \A e \in EngineIds :
            ~(engines[e].pc # "acting" /\ engines'[e].pc = "acting")]_vars

\* ---------------------------------------------------------------------
\* C11: within one run, steps are attempted in increasing script index from
\* the resume index on: an attempted step is not below the resume index, no
\* step above the loop's current index has been attempted, and every
\* attempted step after the resume index follows a step that was attempted
\* and reported once, with success true, in the same run.
C11_StepsInOrder ==
    \A k \in StepKeys(E1) :
        E1.attempts[k] > 0
        => /\ E1.start_index # NoIndex
           /\ k > E1.start_index
           /\ E1.pc \in {"attempt", "acting", "report"} => k <= E1.i + 1
           /\ k > E1.start_index + 1
              => E1.attempts[k - 1] > 0 /\ E1.reports[k - 1] = <<TRUE>>

\* A run has gone through its first step and is executing the action of its
\* second one.
C11_Witness ==
    /\ Len(E1.steps) = 2
    /\ E1.start_index = 0
    /\ E1.pc = "acting"
    /\ E1.i = 1
    /\ E1.attempts[1] = 2
    /\ E1.reports = <<(<<TRUE>>), (<<>>)>>

\* ---------------------------------------------------------------------
\* C12: save_checkpoint(id) followed at once by restore_checkpoint(id) makes
\* the next start() begin at the index of the step that was current at the
\* save, with the server_range of that moment.
C12_RoundTripResumes ==
    (/\ E1.rt # <<>>
     /\ E1.runs = E1.rt[3] + 1
     /\ E1.start_index # NoIndex)
    => /\ E1.start_index = E1.rt[1]
       /\ E1.server_range = E1.rt[2]

\* ---------------------------------------------------------------------
\* C13: restore_checkpoint with an unknown id, with no id when no checkpoint
\* was ever saved, or with a checkpoint whose step is not in the script,
\* returns failure and leaves server_range and the resume index unchanged.
RestoreMustFail(g, id) ==
    \/ id # NoCheckpoint /\ ~HasCheckpoint(g, id)
    \/ id = NoCheckpoint /\ g.checkpoints = <<>>
    \/ LET rid == IF id = NoCheckpoint THEN g.last_checkpoint_id ELSE id
       IN /\ rid # NoCheckpoint
          /\ HasCheckpoint(g, rid)
          /\ GetCheckpoint(g, rid).step_id + 1 > Len(g.steps)

C13_FailedRestoreChangesNothing ==
    \A id \in RestoreIds :
        RestoreMustFail(E1, id)
        => /\ ~restore_result(E1, id)
           /\ restore_checkpoint(E1, id).server_range = E1.server_range
           /\ restore_checkpoint(E1, id).checkpoint_step_index
                = E1.checkpoint_step_index

\* A restore has just failed on a checkpoint whose step is no longer in the
\* script and whose server_range differs from the engine's.
C13_Witness ==
    /\ E1.restored = "failed"
    /\ E1.last_checkpoint_id # NoCheckpoint
    /\ HasCheckpoint(E1, E1.last_checkpoint_id)
    /\ GetCheckpoint(E1, E1.last_checkpoint_id).step_id + 1 > Len(E1.steps)
    /\ GetCheckpoint(E1, E1.last_checkpoint_id).server_range # E1.server_range
    /\ E1.checkpoint_step_index = NoIndex

\* ---------------------------------------------------------------------
\* C19: start() called while a run is in progress changes nothing: no second
\* thread, the cancellation flag, the current step and the resume index stay.
C19_StartRejectedWhileRunning ==
    ThreadAlive(E1)
    => /\ StartEngine(E1).runs = E1.runs
       /\ StartEngine(E1).pc = E1.pc
       /\ StartEngine(E1).stop_event = E1.stop_event
       /\ StartEngine(E1).current_step = E1.current_step
       /\ StartEngine(E1).checkpoint_step_index = E1.checkpoint_step_index
       /\ StartEngine(E1) = E1

\* start() has just been rejected on a cancelled run with a current step and
\* a restored resume index.
C19_Witness ==
    /\ E1.rejected
    /\ ThreadAlive(E1)
    /\ E1.stop_event
    /\ E1.current_step # NoStep
    /\ E1.checkpoint_step_index # NoIndex

\* ---------------------------------------------------------------------
\* C20: for every task that has reached a terminal state,
\* is_task_completed(task id) returns true and get_task_result(task id)
\* returns the task's outcome, at any later time.
C20_TerminalTaskStaysQueryable ==
    \A t \in TaskIds :
        (tasks[t].exists /\ FutureDone(t))
        => /\ is_task_completed(tasks[t].task_id)
           /\ tasks[t].fstate = "finished"
              => get_task_result(tasks[t].task_id)
                   = (IF tasks[t].result THEN "True" ELSE "False")

\* ---------------------------------------------------------------------
\* C15: at any time the number of sequencer runs in progress is at most the
\* pool's max_workers, across start_tutorial, stop() and start() calls.
C15_RunsWithinWorkers ==
    Cardinality({e \in EngineIds : is_running(engines[e])}) <= max_workers

\* ---------------------------------------------------------------------
\* C14: initialize_emulator called for an already-initialized device returns
\* success without constructing a controller, without probing the device and
\* without changing the registry maps.
C14_InitializeIsIdempotent ==
    \A d \in Devices, c \in BOOLEAN, r \in BOOLEAN :
        d \in adb_controllers
        => initialize_emulator(d, c, r)
             = [ok |-> TRUE, adb |-> adb_controllers, img |-> image_processors,
                created |-> FALSE, probed |-> FALSE]

\* The last call of initialize_emulator asked for the device check on a
\* device that was already initialized, and a run is registered for it.
C14_Witness ==
    /\ calls.last # <<>>
    /\ calls.last[2]
    /\ calls.last[3]
    /\ calls.last[1] \in adb_controllers
    /\ tutorial_engines[calls.last[1]] # 0

\* ---------------------------------------------------------------------
\* C18: no thread holds the executor's registry lock while it waits for a
\* device or joins an engine's thread.
C18_NoBlockingUnderLock ==
    ~(lock # 0 /\ calls.pc \in {"probe", "join"})

\* ---------------------------------------------------------------------
\* C16: with the executor started and never stopped, every device reachable
\* and every attempt terminating, every accepted task is eventually
\* dispatched and reaches a terminal state, also with more tasks than
\* workers.
C16_EveryTaskEnds ==
    \A t \in TaskIds :
        (tasks[t].exists /\ executor # 0) ~> (tasks[t].fstate = "finished")

\* Two tasks on two devices were submitted to a pool of one worker and both
\* have finished.
C16_Witness ==
    /\ max_workers = 1
    /\ \A t \in TaskIds : tasks[t].fstate = "finished"
    /\ tasks[1].emulator_id # tasks[2].emulator_id
    /\ \A e \in EngineIds : engines[e].runs = 1 /\ engines[e].pc = "dead"

\* ---------------------------------------------------------------------
\* The done-callback of task t has run: the dispatch loop is not between
\* submit and add_done_callback for it.
CallbackRan(t) ==
    \A p \in PoolIds : ~(dispatchers[p].pc = "addcb" /\ dispatchers[p].task = t)

\* C17: when a task's function raises an unexpected exception inside a pool
\* worker, the exception becomes that task's failed outcome, the task is
\* removed from current_tasks and futures, and the worker is free again, so
\* that a task queued behind it still runs to its end.
C17_ExceptionFreesWorker ==
    /\ [](\A t \in TaskIds :
            tasks[t].wpc = "raised" =>
                /\ tasks[t].fstate = "finished"
                /\ tasks[t].result = FALSE
                /\ \A p \in PoolIds : t \notin Running(p)
                /\ CallbackRan(t) =>
                      /\ current_tasks[tasks[t].emulator_id] # t
                      /\ futures[tasks[t].task_id] # t)
    /\ \A t, u \in TaskIds :
          (tasks[t].wpc = "raised" /\ tasks[u].exists /\ executor # 0)
              ~> (tasks[u].fstate = "finished")

\* With one worker, the first task raised and the task that was queued
\* behind it has since been taken by the worker and has finished its run.
C17_Witness ==
    /\ max_workers = 1
    /\ tasks[1].wpc = "raised"
    /\ CallbackRan(1)
    /\ tasks[2].fstate = "finished"
    /\ tasks[2].wpc = "done"
    /\ tasks[2].result

\* ---------------------------------------------------------------------
\* C21: when a task's device does not become reachable within the worker's
\* bounded wait, the task ends with a failed result without starting the
\* sequencer: no step of its script is executed and the worker is released.
C21_UnreachableDeviceFailsFast ==
    \A t \in calls.unreachable :
        /\ tasks[t].fstate = "finished"
        /\ tasks[t].result = FALSE
        /\ engines[tasks[t].eng].runs = 0
        /\ \A p \in PoolIds : t \notin Running(p)

\* ---------------------------------------------------------------------
\* C22: after cleanup_emulator(id) returns, id has no entry in
\* adb_controllers, image_processors, tutorial_engines or current_tasks, and
\* if its registered engine was running at the call, that engine's
\* cancellation flag has been set.
C22_CleanupRemovesEverything ==
    [][(calls'.last # calls.last /\ calls'.last # <<>>
            /\ calls'.last[1] = "returned") =>
          LET dev == calls'.last[2] IN
          /\ dev \notin adb_controllers'
          /\ dev \notin image_processors'
          /\ tutorial_engines'[dev] = 0
          /\ current_tasks'[dev] = 0
          /\ calls'.last[3] => engines'[calls'.last[4]].stop_event]_vars

\* ---------------------------------------------------------------------
\* The dispatch-loop threads that have not left _task_queue_worker.
LiveDispatchers ==
    {p \in PoolIds : dispatchers[p].pc \in {"get", "submit", "addcb"}}

\* C29: at most one dispatch-loop thread is pulling from the task queue at
\* any time, for any sequence of start() and stop() calls, including stop()
\* immediately followed by start().
C29_OneDispatchLoop == Cardinality(LiveDispatchers) <= 1

\* ---------------------------------------------------------------------
\* C23: find_template's result for a frame and a reference depends only on
\* them: the scale factors a call uses are those of its own frame's
\* resolution, whatever other threads do on the shared ImageProcessor before
\* or during the call.
C23_ScaleOfOwnFrame ==
    \A th \in FinderIds :
        finders[th].pc \in {"lookup", "load", "use", "done"} =>
            finders[th].scale = ScaleFor(finders[th].frame)

\* ---------------------------------------------------------------------
\* C24: when several threads look up a reference image that is not yet in
\* the cache, the image is loaded at most once and all of them use the same
\* cached entry.
C24_LoadedOnce ==
    /\ \A n \in TemplateNames : global_image_processor.loads[n] <= 1
    /\ \A th, ot \in FinderIds :
          (finders[th].pc = "done" /\ finders[ot].pc = "done"
              /\ finders[th].name = finders[ot].name) =>
             finders[th].template = finders[ot].template

\* ---------------------------------------------------------------------
\* The scores of the combinations that were tried in the call of thread th.
TriedScores(th) ==
    IF finders[th].fits
    THEN {finders[th].combos[k].val :
            k \in {j \in 1..Len(finders[th].combos) :
                     finders[th].combos[j].kind = "score"}}
    ELSE {}

C25_ErrorDoesNotEndWait ==
    [][/\ (waiter.pc = "head" /\ waiter'.pc = "head" /\ waiter' # waiter
              /\ waiter'.last = "error") =>
             /\ waiter'.attempts = waiter.attempts + 1
             /\ waiter'.elapsed >= waiter.elapsed + waiter.interval
       /\ (waiter.pc = "head" /\ waiter'.pc = "returned") =>
             \/ waiter'.last = "found" /\ waiter'.result = "center"
             \/ ~WaitGoesOn(waiter) /\ waiter'.result = "None"
       /\ (waiter.pc = "head" /\ waiter.raised /\ waiter' # waiter
              /\ waiter'.last = "found") =>
             waiter'.result = "center"]_vars

\* A wait in which an attempt raised has returned the center found by a
\* later attempt.
C25_Witness ==
    /\ waiter.pc = "returned"
    /\ waiter.raised
    /\ waiter.attempts >= 2
    /\ waiter.result = "center"

\* ---------------------------------------------------------------------
\* C26: wait_for_template returns not-found only after the given timeout has
\* elapsed, for any timeout and poll interval.
C26_NotFoundOnlyAfterTimeout ==
    (waiter.pc = "returned" /\ waiter.result = "None") =>
        waiter.elapsed >= waiter.timeout

\* ---------------------------------------------------------------------
\* C28: the composite action that taps a location until an image appears
\* always terminates: when the image never appears it stops after a bounded
\* number of taps and returns failure, for step 51 and for step 52.
C28_ClickLoopEnds ==
    /\ (clicker.pc = "loop") ~> (clicker.pc = "returned")
    /\ [](clicker.pc = "returned" /\ clicker.result = "False" =>
             clicker.click_count <= Step52MaxClicks)

\* ---------------------------------------------------------------------
\* C30: find_all_templates returns at most max_results matches, in
\* descending score order, and no returned match lies within half the
\* template width horizontally and half the template height vertically of a
\* match returned before it.
C30_FilteredMatches ==
    \A th \in FinderIds :
        finders[th].pc = "done" =>
            LET ms == finders[th].matches IN
            /\ Len(ms) <= finders[th].max_results
            /\ \A i, j \in 1..Len(ms) : i < j => ms[i].score >= ms[j].score
            /\ \A i, j \in 1..Len(ms) :
                  i < j => ~(/\ 2 * Abs(ms[j].x - ms[i].x) < ms[j].w
                             /\ 2 * Abs(ms[j].y - ms[i].y) < ms[j].h)

\* ---------------------------------------------------------------------
\* C32: on_step_complete(step id, false) is invoked only for a step whose
\* action has been attempted and has failed retry_count times; a cancellation
\* just before the first attempt or between attempts never produces a false
\* report for a step with fewer than retry_count failed attempts.
C32_FalseReportAfterAllRetries ==
    \A k \in StepKeys(E1) :
        \A n \in 1..Len(E1.reports[k]) :
            ~E1.reports[k][n] => E1.attempts[k] = E1.steps[k]

\* ---------------------------------------------------------------------
\* C33: during a run a checkpoint is saved exactly when a step whose
\* zero-based script index is a multiple of 5 succeeds (index 0 included);
\* the checkpoint records that step's id and the current server_range and
\* becomes the most recent checkpoint, and no checkpoint is saved for a step
\* that fails or for any other index.
C33_CheckpointEveryFifthSuccess ==
    [][LET g == E1
           h == E1'
           succeeded == /\ g.pc = "acting"
                        /\ h.pc = "report"
                        /\ h.returned[g.i + 1] = "truthy"
           id == <<"checkpoint", g.i, now>>
       IN /\ (succeeded /\ g.i % 5 = 0)
               => /\ h.last_checkpoint_id = id
                  /\ HasCheckpoint(h, id)
                  /\ GetCheckpoint(h, id) =
                       [step_id |-> g.i, server_range |-> g.server_range]
          /\ (h.checkpoints # g.checkpoints
                \/ h.last_checkpoint_id # g.last_checkpoint_id)
               => succeeded /\ g.i % 5 = 0]_vars

\* ---------------------------------------------------------------------
\* The run of engine g has ended, or is ending, because a step failed on
\* every attempt, with no cancellation requested.
Exhausted(g) ==
    /\ g.exists
    /\ ~g.stop_event
    /\ \/ g.pc = "report" /\ ~g.step_success
       \/ g.pc = "finish" /\ ~g.raised /\ ~RunOutcome(g)
       \/ /\ g.pc \in {"clear", "dead"}
          /\ g.completes = <<FALSE>>
          /\ ~g.cancel_seen

\* What belongs to device d: its engines, its registry entries, its tasks and
\* their futures entries.
Owned(d) ==
    <<[e \in EngineIds |-> IF engines[e].dev = d THEN engines[e] ELSE NoEngine],
      d \in adb_controllers, d \in image_processors,
      tutorial_engines[d], current_tasks[d],
      [t \in TaskIds |-> IF tasks[t].emulator_id = d THEN tasks[t] ELSE NoTask],
      [k \in TaskKeys |-> IF k[1] = d THEN futures[k] ELSE 0]>>

\* C31: a run on device A that ends by step exhaustion changes nothing that
\* belongs to another device B: B's engine state, B's registry entries and
\* B's task are unchanged by the steps of A's run and of its completion, and
\* B's run still proceeds to its own terminal state.
C31_ExhaustionLeavesOthersAlone ==
    /\ [][\A d \in Devices :
            (/\ \E e \in EngineIds : engines[e].dev = d /\ Exhausted(engines[e])
             /\ Owned(d)' # Owned(d))
            => \A b \in Devices \ {d} : Owned(b)' = Owned(b)]_vars
    /\ \A e, x \in EngineIds :
          (/\ Exhausted(engines[e])
           /\ engines[x].exists
           /\ engines[x].dev # engines[e].dev
           /\ executor # 0)
          ~> (engines[x].pc = "dead" /\ tasks[x].fstate = "finished")

\* The run on A failed its first step on every attempt and its task is
\* finished and forgotten; the run on B has since completed its script and
\* its task has finished too.
C31_Witness ==
    /\ engines[1].dev = "A"
    /\ Exhausted(engines[1])
    /\ engines[1].pc = "dead"
    /\ tasks[1].fstate = "finished"
    /\ CallbackRan(1)
    /\ current_tasks["A"] = 0
    /\ engines[2].dev = "B"
    /\ engines[2].pc = "dead"
    /\ engines[2].completes = <<TRUE>>
    /\ tasks[2].fstate = "finished"
    /\ tasks[2].result

\* ---------------------------------------------------------------------
\* C34: a 'tap located image' or 'wait for image' step that gives no explicit
\* threshold is matched with the threshold configured for its template name
\* (0.75 for "skip"), or the default for a name without one, not with a fixed
\* 0.8: the image is found exactly when the best tried score reaches the
\* configured threshold.
C34_StepUsesConfiguredThreshold ==
    \A th \in FinderIds :
        finders[th].pc = "done" /\ finders[th].step \in EngineImageSteps =>
            ((finders[th].result # 0) <=>
                \E v \in TriedScores(th) :
                    v >= get_optimal_threshold(finders[th].name))

\* ---------------------------------------------------------------------
\* C35: the season-selection and server-selection steps act on the first
\* server of the engine's server_range as it is when the step executes, so a
\* value set by set_server_range or restore_checkpoint after the script was
\* built is the one those steps use.
C35_StepUsesCurrentServerRange ==
    E1.called_with # <<>> => E1.called_with[1] = E1.called_with[2]

\* ---------------------------------------------------------------------
\* C36: find_season_and_click maps every server number from 1 to 600 to
\* exactly one season and taps that season's position, returning success; it
\* returns failure only for server numbers outside 1..600.
C36_EveryServerHasSeason ==
    E1.season_call # <<>> =>
        LET target_server == E1.season_call[1]
            r == E1.season_call[2]
        IN IF target_server \in 1..600
           THEN /\ r.ok
                /\ r.season \in DOMAIN season_coords
                /\ r.tap = season_coords[r.season]
           ELSE ~r.ok

\* ---------------------------------------------------------------------
\* C37: EmulatorManager.stop_emulator and restart_emulator always return:
\* neither blocks forever trying to re-acquire the manager's own lock through
\* its nested calls to list_emulators or stop_emulator.
C37_StopAndRestartReturn ==
    \A th \in ManagerThreads :
        (/\ emulator_manager.threads[th].stack # <<>>
         /\ emulator_manager.threads[th].stack[1].fn
               \in {"stop_emulator", "restart_emulator"})
        ~> (emulator_manager.threads[th].stack = <<>>)

\* ---------------------------------------------------------------------
\* Task t was taken from the queue and the dispatch loop has left it without
\* a future: it is in no queue, no dispatch loop holds it, and it was never
\* given to a pool.
Dropped(t) ==
    /\ tasks[t].exists
    /\ tasks[t].fstate = "none"
    /\ \A k \in 1..Len(task_queue) : task_queue[k] # t
    /\ \A p \in PoolIds : dispatchers[p].task # t

\* C38: a task that the dispatch loop has taken from the queue is always
\* submitted to the pool: no interleaving of stop() with the dispatch loop
\* drops a dequeued task while it stays listed in current_tasks as active.
C38_DequeuedTaskIsSubmitted ==
    \A t \in TaskIds :
        ~(Dropped(t) /\ current_tasks[tasks[t].emulator_id] = t)

\* ---------------------------------------------------------------------
\* C39: wait_for_device returns true only when a get-state command actually
\* succeeded and reported the device as available; output that
\* execute_command returns for a command that failed on every attempt (an
\* error message or the timeout text) never makes the device count as
\* reachable.
C39_ReachableOnlyOnSuccess ==
    (Len(calls.last) = 3 /\ calls.last[1] = "wait_for_device" /\ calls.last[3])
        => \E i \in 1..Len(calls.last[2]) :
              /\ CommandSucceeded(calls.last[2][i])
              /\ Reachable(execute_command(calls.last[2][i]))

\* ---------------------------------------------------------------------
\* C40: distinct accepted submissions receive distinct task ids, so that the
\* futures entry and the completion handling of one task never refer to
\* another task, even for two submissions for the same device made within
\* the same second.
C40_DistinctTaskIds ==
    \A t, u \in TaskIds :
        (t # u /\ tasks[t].exists /\ tasks[u].exists)
            => tasks[t].task_id # tasks[u].task_id

====
